---------------------------- MODULE Spec2Model ----------------------------
(* Verification development for the k8s-news-engine pipeline.              *)
(* One state machine per service; every specification below moves the      *)
(* variables of one service and leaves the other services' variables      *)
(* at their idle values.                                                     *)
EXTENDS Integers, Sequences, FiniteSets, TLC

VARIABLES
    \* rss-fetcher (services/rss-fetcher/fetcher.py)
    articles,      \* articles table: url -> [id, text]; id = 0 when no row
    articleSeq,    \* last value handed out by the articles id sequence
    savePc,        \* position of each save_article call
    saveUrl,       \* entry['link'] of each call ("" when missing)
    saveRet,       \* value returned by each call (0 = None)
    \* quality-service event grouping (QualityService.group_articles_into_events)
    gArticles,     \* the batch handed to the grouping, in selection order
    gConfig,       \* self.grouping_config
    gEvents,       \* returned events: event_id -> member positions
    gPc,           \* "ready" before the call, "done" after it returned
    \* quality-service scoring (QualityService.calculate_article_quality_score)
    qIn,           \* the article and what the collaborators answer for it
    qScore,        \* the returned quality_score in tenths (NULL before)
    qPc,           \* "ready" before the call, "done" after it returned
    \* quality-service reputation analyzer (reputation_analyzer.py)
    repMetrics,    \* the outlet's news_agency_reputation_metrics row, or NoMetrics
    repFinal,      \* that row's final_reputation_score (NULL until written)
    repCache,      \* outlet_reputation_scores.reputation_score (NULL = no row)
    repAuthority,  \* outlet_authority.authority (NULL = no row)
    repReturned,   \* what the analyzer returned last (NULL = not called yet)
    repCall,       \* the entry point that returned last ("none" before)
    repReads,      \* how each read of that call ended
    \* quality-service configuration manager (performance_config_manager.py)
    cfgSnapshots,    \* performance_config_snapshots rows in id order
    cfgChangeEvents, \* config_change_events rows
    cfgCurrent,      \* self.current_config (NoConfig while it is None)
    cfgGeneration,   \* self.config_generation
    cfgRet,          \* the call that returned last and what it returned
    \* quality-service worker (QualityService.process_articles_batch)
    bStore,        \* articles table: id -> row
    bEvents,       \* number of rows of the events table (ids 1..bEvents)
    bLinks,        \* event_articles table: set of <<event_id, article_id>>
    bNow,          \* the clock, in hours
    bLast,         \* the last batch: its selection, result and commit
    bRuns,         \* number of batches run
    bLastSnapshotTime, \* self.last_snapshot_time (NULL while not set)
    \* analytics worker (services/analytics-py/worker.py)
    eArticles,     \* the event's articles as fetch_event_article_data returns them
    eClaims,       \* the event's claims as fetch_event_claims returns them
    eProfiles,     \* outlet_authority: outlet -> authority_score (NULL = no row)
    eCosine,       \* mean pairwise TF-IDF cosine of the texts, in thousandths
    eWeights,      \* the weights of configs/metrics.yml, in thousandths
    eNow,          \* the clock, in hours
    eMetrics,      \* the event_metrics table: its rows in insertion order
    eRuns,         \* number of worker runs
    \* claim extractor (services/claim-extractor/extractor.py)
    xTitle,        \* the sentences of the title handed to the extraction
    xText,         \* the sentences of the text handed to the extraction
    xOut,          \* whether it returned, and the claims it returned
    cArticles,     \* articles table: id -> [long, title, text]
    cClaims,       \* claims table: its rows in insertion order
    cBatch,        \* per extractor: the article ids of its batch still to do
    cPc,           \* per extractor: "idle" or "batch" (inside run_batch)
    cProcessed,    \* ids of the articles process_article has returned for
    \* feed validator (services/quality-service/rss_agency_validator.py)
    vFeeds,        \* rss_feeds rows: [active, news_agency_id]
    vAgencies,     \* news_agency_reputation_metrics: id -> final score
    vValidations,  \* the list validate_all_rss_feeds returned last
    vSummary,      \* the dict get_validation_summary returned last
    vCall,         \* the entry point that returned last ("none" before)
    \* rss-fetcher cycle (RSSFetcher.run_once)
    fFeeds,        \* rss_feeds rows: [active, last_fetched, interval]
    fNow,          \* the clock, in minutes
    fCycle,        \* the last cycle: per feed, whether due and how it ended
    fCycles,       \* number of cycles run
    \* quality worker main loop (QualityService.run, main.py)
    wRunning,      \* self.running
    wPc,           \* where run is: "init", "test", "enter", "batch",
                   \* "sleep", "stopped"
    wSignalAt,     \* where run was when the first signal came ("none" before)
    wBatches,      \* number of batches started
    wSleep,        \* seconds of the sleep chosen last
    \* startup health check (startup_health_check.py)
    hPc,           \* "db", "ner", "decide", "exited"
    hAttempt,      \* attempt of the range(max_retries) loop, from 0
    hLog,          \* how each database attempt ended
    hWaits,        \* the seconds of each time.sleep so far
    hChecks,       \* [db, ner]: what the two checks returned (NULL before)
    hExit          \* the exit code (NULL while running)

fetchVars == <<articles, articleSeq, savePc, saveUrl, saveRet>>
groupVars == <<gArticles, gConfig, gEvents, gPc>>
scoreVars == <<qIn, qScore, qPc>>
repVars ==
    <<repMetrics, repFinal, repCache, repAuthority, repReturned, repCall,
      repReads>>
cfgVars ==
    <<cfgSnapshots, cfgChangeEvents, cfgCurrent, cfgGeneration, cfgRet>>
batchVars ==
    <<bStore, bEvents, bLinks, bNow, bLast, bRuns, bLastSnapshotTime>>

eqisVars ==
    <<eArticles, eClaims, eProfiles, eCosine, eWeights, eNow, eMetrics, eRuns>>

extractVars == <<xTitle, xText, xOut>>
claimVars == <<cArticles, cClaims, cBatch, cPc, cProcessed>>
validVars == <<vFeeds, vAgencies, vValidations, vSummary, vCall>>
cycleVars == <<fFeeds, fNow, fCycle, fCycles>>
loopVars == <<wRunning, wPc, wSignalAt, wBatches, wSleep>>
healthVars == <<hPc, hAttempt, hLog, hWaits, hChecks, hExit>>

vars ==
    <<fetchVars, groupVars, scoreVars, repVars, cfgVars, batchVars, eqisVars,
      extractVars, claimVars, validVars, cycleVars, loopVars, healthVars>>

\* what the steps of one service leave alone: the other services' variables
FetchFrame ==
    UNCHANGED <<groupVars, scoreVars, repVars, cfgVars,
                batchVars, eqisVars, extractVars, claimVars,
                validVars, cycleVars,
                loopVars, healthVars>>
GroupFrame ==
    UNCHANGED <<fetchVars, scoreVars, repVars, cfgVars,
                batchVars, eqisVars, extractVars, claimVars,
                validVars, cycleVars,
                loopVars, healthVars>>
ScoreFrame ==
    UNCHANGED <<fetchVars, groupVars, repVars, cfgVars,
                batchVars, eqisVars, extractVars, claimVars,
                validVars, cycleVars,
                loopVars, healthVars>>
RepFrame ==
    UNCHANGED <<fetchVars, groupVars, scoreVars, cfgVars,
                batchVars, eqisVars, extractVars, claimVars,
                validVars, cycleVars,
                loopVars, healthVars>>
CfgFrame ==
    UNCHANGED <<fetchVars, groupVars, scoreVars, repVars,
                batchVars, eqisVars, extractVars, claimVars,
                validVars, cycleVars,
                loopVars, healthVars>>
BatchFrame ==
    UNCHANGED <<fetchVars, groupVars, scoreVars, repVars,
                eqisVars, extractVars, claimVars,
                validVars, cycleVars,
                loopVars, healthVars>>
EqisFrame ==
    UNCHANGED <<fetchVars, groupVars, scoreVars, repVars,
                cfgVars, batchVars, extractVars, claimVars,
                validVars, cycleVars,
                loopVars, healthVars>>
ExtractFrame ==
    UNCHANGED <<fetchVars, groupVars, scoreVars, repVars,
                cfgVars, batchVars, eqisVars, claimVars,
                validVars, cycleVars,
                loopVars, healthVars>>
ClaimFrame ==
    UNCHANGED <<fetchVars, groupVars, scoreVars, repVars,
                cfgVars, batchVars, eqisVars, extractVars,
                validVars, cycleVars,
                loopVars, healthVars>>

ValidFrame ==
    UNCHANGED <<fetchVars, groupVars, scoreVars, repVars, cfgVars,
                batchVars, eqisVars, extractVars, claimVars, cycleVars,
                loopVars, healthVars>>
CycleFrame ==
    UNCHANGED <<fetchVars, groupVars, scoreVars, repVars, cfgVars,
                batchVars, eqisVars, extractVars, claimVars, validVars,
                loopVars, healthVars>>

LoopFrame ==
    UNCHANGED <<fetchVars, groupVars, scoreVars, repVars, cfgVars,
                batchVars, eqisVars, extractVars, claimVars, validVars,
                cycleVars, healthVars>>
HealthFrame ==
    UNCHANGED <<fetchVars, groupVars, scoreVars, repVars, cfgVars,
                batchVars, eqisVars, extractVars, claimVars, validVars,
                cycleVars, loopVars>>

NULL == 0 - 1

Max(a, b) == IF a >= b THEN a ELSE b
Min(a, b) == IF a <= b THEN a ELSE b

-----------------------------------------------------------------------------
(* idle values of each service's variables                                  *)

GroupIdle ==
    /\ gArticles = <<>>
    /\ gConfig = [min_shared_entities |-> 0, entity_overlap_threshold |-> 0,
                  min_title_keywords |-> 0, title_keyword_bonus |-> 0,
                  max_time_diff_hours |-> 0, allow_same_outlet |-> FALSE]
    /\ gEvents = <<>>
    /\ gPc = "idle"

ScoreIdle ==
    /\ qIn = [path |-> "idle", writing |-> 0, rep2 |-> 0, authority |-> 0,
              hours_ago |-> NULL]
    /\ qScore = NULL
    /\ qPc = "idle"

NoMetrics == [id |-> 0]

\* a read found a row, found none, failed, or was not made
NoReads == [cache |-> "skipped", metrics |-> "skipped", authority |-> "skipped"]

RepIdle ==
    /\ repMetrics = NoMetrics
    /\ repFinal = NULL
    /\ repCache = NULL
    /\ repAuthority = NULL
    /\ repReturned = NULL
    /\ repCall = "none"
    /\ repReads = NoReads

NoConfig == [loaded |-> FALSE]

CfgIdle ==
    /\ cfgSnapshots = <<>>
    /\ cfgChangeEvents = {}
    /\ cfgCurrent = NoConfig
    /\ cfgGeneration = 0
    /\ cfgRet = [op |-> "none", ret |-> NULL]

BatchIdle ==
    /\ bStore = <<>>
    /\ bEvents = 0
    /\ bLinks = {}
    /\ bNow = 0
    /\ bLast = [selection |-> <<>>, ret |-> NULL, committed |-> FALSE]
    /\ bRuns = 0
    /\ bLastSnapshotTime = NULL

NoEventMetrics == [event_id |-> 0]

EqisIdle ==
    /\ eArticles = <<>>
    /\ eClaims = <<>>
    /\ eProfiles = <<>>
    /\ eCosine = 0
    /\ eWeights = <<>>
    /\ eNow = 0
    /\ eMetrics = <<>>
    /\ eRuns = 0

NoExtraction == [returned |-> FALSE, claims |-> <<>>]

ExtractIdle ==
    /\ xTitle = <<>>
    /\ xText = <<>>
    /\ xOut = NoExtraction

ClaimIdle ==
    /\ cArticles = <<>>
    /\ cClaims = <<>>
    /\ cBatch = <<>>
    /\ cPc = <<>>
    /\ cProcessed = {}

-----------------------------------------------------------------------------
(* rss-fetcher: RSSFetcher.save_article                                     *)

Urls == {"u1", "u2"}
NoUrl == ""
Texts == {"t1", "t2"}
Fetchers == {"f1", "f2"}
\* bound on the values drawn from the articles id sequence
MaxArticleSeq == 4

NoRow == [id |-> 0, text |-> ""]

ArticleRowCount == Cardinality({u \in Urls : articles[u].id # 0})

\* INSERT ... ON CONFLICT (url) DO UPDATE SET text = COALESCE(EXCLUDED.text,
\* articles.text) RETURNING id; newId is the value the id default drew.
UpsertNoConflictClause(rows, url, text, newId) ==
    [rows EXCEPT ![url] = [id |-> newId, text |-> text]]

UpsertArticle(rows, url, text, newId) ==
    IF rows[url].id # 0
    THEN [rows EXCEPT ![url].text = IF text # "" THEN text ELSE rows[url].text]
    ELSE [rows EXCEPT ![url] = [id |-> newId, text |-> text]]

NoSummary == [returned |-> FALSE]

ValidIdle ==
    /\ vFeeds = <<>>
    /\ vAgencies = <<>>
    /\ vValidations = <<>>
    /\ vSummary = NoSummary
    /\ vCall = "none"

NoCycle == [due |-> <<>>, outcome |-> <<>>]

CycleIdle ==
    /\ fFeeds = <<>>
    /\ fNow = 0
    /\ fCycle = NoCycle
    /\ fCycles = 0

LoopIdle ==
    /\ wRunning = FALSE
    /\ wPc = "none"
    /\ wSignalAt = "none"
    /\ wBatches = 0
    /\ wSleep = 0

\* what the two checks returned (1 = True, 0 = False, NULL = not yet) and
\* how the NER check went
NoChecks == [db |-> NULL, ner |-> NULL, ner_outcome |-> "none"]

HealthIdle ==
    /\ hPc = "none"
    /\ hAttempt = 0
    /\ hLog = <<>>
    /\ hWaits = <<>>
    /\ hChecks = NoChecks
    /\ hExit = NULL

FetchIdle ==
    /\ articles = [u \in Urls |-> NoRow]
    /\ articleSeq = 0
    /\ savePc = [f \in Fetchers |-> "idle"]
    /\ saveUrl = [f \in Fetchers |-> NoUrl]
    /\ saveRet = [f \in Fetchers |-> 0]

\* save_article is entered with an entry; url = entry.get('link', '')
SaveArticleCall(f, url) ==
    /\ savePc[f] = "idle"
    /\ savePc' = [savePc EXCEPT ![f] = "check"]
    /\ saveUrl' = [saveUrl EXCEPT ![f] = url]
    /\ saveRet' = [saveRet EXCEPT ![f] = 0]
    /\ UNCHANGED <<articles, articleSeq>>
    /\ FetchFrame

\* lines 103-116: no link returns None; an existing row returns its id
SaveArticleCheck(f) ==
    /\ savePc[f] = "check"
    /\ IF saveUrl[f] = NoUrl
       THEN /\ savePc' = [savePc EXCEPT ![f] = "idle"]
            /\ saveRet' = [saveRet EXCEPT ![f] = 0]
       ELSE IF articles[saveUrl[f]].id # 0
       THEN /\ savePc' = [savePc EXCEPT ![f] = "idle"]
            /\ saveRet' = [saveRet EXCEPT ![f] = articles[saveUrl[f]].id]
       ELSE /\ savePc' = [savePc EXCEPT ![f] = "insert"]
            /\ UNCHANGED saveRet
    /\ UNCHANGED <<articles, articleSeq, saveUrl>>
    /\ FetchFrame

\* lines 118-157: extract the content, then the upsert in its own transaction
SaveArticleInsert(f, text) ==
    /\ savePc[f] = "insert"
    /\ articleSeq < MaxArticleSeq
    /\ articleSeq' = articleSeq + 1
    /\ articles' = UpsertArticle(articles, saveUrl[f], text, articleSeq + 1)
    /\ saveRet' = [saveRet EXCEPT ![f] = articles'[saveUrl[f]].id]
    /\ savePc' = [savePc EXCEPT ![f] = "idle"]
    /\ UNCHANGED saveUrl
    /\ FetchFrame

FetchInit ==
    /\ LoopIdle
    /\ HealthIdle
    /\ ValidIdle
    /\ CycleIdle
    /\ ExtractIdle
    /\ ClaimIdle
    /\ EqisIdle
    /\ FetchIdle
    /\ GroupIdle
    /\ ScoreIdle
    /\ RepIdle
    /\ CfgIdle
    /\ BatchIdle

FetchNext ==
    \/ \E f \in Fetchers, u \in Urls \cup {NoUrl} : SaveArticleCall(f, u)
    \/ \E f \in Fetchers : SaveArticleCheck(f)
    \/ \E f \in Fetchers, t \in Texts \cup {""} : SaveArticleInsert(f, t)

SpecFetch == FetchInit /\ [][FetchNext]_vars

\* C1: a save_article step (the existence check or the insert) taken for a
\* URL that is already stored leaves the number of article rows unchanged,
\* and when the call returns at that step it returns the stored row's id.
ArticleDedup ==
    [][\A f \in Fetchers :
          (savePc[f] \in {"check", "insert"} /\ savePc'[f] = "idle"
           /\ saveUrl[f] # NoUrl /\ articles[saveUrl[f]].id # 0)
          => /\ ArticleRowCount' = ArticleRowCount
             /\ saveRet'[f] = articles[saveUrl[f]].id
             /\ articles'[saveUrl[f]].id = articles[saveUrl[f]].id]_vars

\* both callers passed the existence check for the same URL and both ran
\* the insert: two ids were drawn, one row exists, both got the first id
ArticleDedupWitness ==
    /\ savePc["f1"] = "idle"
    /\ savePc["f2"] = "idle"
    /\ saveUrl["f1"] = "u1"
    /\ saveUrl["f2"] = "u1"
    /\ articleSeq = 2
    /\ ArticleRowCount = 1
    /\ articles["u1"].id = 1
    /\ saveRet["f1"] = 1
    /\ saveRet["f2"] = 1

-----------------------------------------------------------------------------
(* quality-service: QualityService.group_articles_into_events              *)

\* thresholds are decimals with three fractional digits; comparisons are
\* made on integers scaled by Scale so that required * 0.5 stays exact
Scale == 2000

Outlets == {"Reuters", "BBC News"}
\* published_at in hours on the batch's time axis; NULL = no published_at
PubTimes == {NULL, 0, 48, 96}
\* what extract_key_entities returns for the body and the title keywords
\* (three letters or more, common words removed) of the article
Contents ==
    { [ents |-> {"biden", "pittsburgh", "steel"},
       title |-> {"president", "bill"}],
      [ents |-> {"biden", "congress", "senate"},
       title |-> {"bill", "senate"}] }
ArticleInputs == [outlet : Outlets, pub : PubTimes, content : Contents]
\* bound on the number of articles in one batch
MaxBatch == 3

\* _get_conservative_defaults, with entity_overlap_threshold,
\* title_keyword_bonus and entity_noise_threshold in thousandths
ConservativeDefaults ==
    [min_shared_entities |-> 2, entity_overlap_threshold |-> 250,
     min_title_keywords |-> 0, title_keyword_bonus |-> 100,
     max_time_diff_hours |-> 48, allow_same_outlet |-> FALSE,
     min_entity_length |-> 3, max_entity_length |-> 50,
     entity_noise_threshold |-> 200]

\* configurations a snapshot or update_configuration can install
GroupingConfigs ==
    { ConservativeDefaults,
      [ConservativeDefaults EXCEPT !.allow_same_outlet = TRUE,
                                   !.min_shared_entities = 1],
      [ConservativeDefaults EXCEPT !.min_shared_entities = 1,
                                   !.min_title_keywords = 2],
      [ConservativeDefaults EXCEPT !.min_shared_entities = 1,
                                   !.entity_overlap_threshold = 350] }

Abs(x) == IF x < 0 THEN 0 - x ELSE x

\* line 512: required_shared, scaled by Scale
RequiredShared(a1, a2, cfg) ==
    Max(cfg.min_shared_entities * Scale,
        Min(Cardinality(a1.content.ents), Cardinality(a2.content.ents))
          * cfg.entity_overlap_threshold * (Scale \div 1000))

\* lines 482-485: outlet policy, checked against the event's first article
OutletGate(a1, a2, cfg) ==
    cfg.allow_same_outlet \/ a2.outlet # a1.outlet

\* lines 487-500: time window, checked against the event's first article
\* and only when both articles have a published_at
TimeGate(a1, a2, cfg) ==
    (a1.pub # NULL /\ a2.pub # NULL)
        => Abs(a1.pub - a2.pub) <= cfg.max_time_diff_hours

\* lines 507-517: both entity sets non-empty and enough shared entities
EntityGate(a1, a2, cfg) ==
    /\ a1.content.ents # {}
    /\ a2.content.ents # {}
    /\ Cardinality(a1.content.ents \cap a2.content.ents) * Scale
          >= RequiredShared(a1, a2, cfg)

\* lines 519-538: title keyword gate with the bonus on the requirement
TitleGate(a1, a2, cfg) ==
    LET t1 == a1.content.title
        t2 == a2.content.title
        overlap == Cardinality(t1 \cap t2)
        required == RequiredShared(a1, a2, cfg)
        bonus == Min(overlap * cfg.title_keyword_bonus * (Scale \div 1000),
                     required \div 2)
        adjusted == Max(Scale, required - bonus)
        shared == Cardinality(a1.content.ents \cap a2.content.ents)
    IN  IF t1 # {} /\ t2 # {}
        THEN IF overlap >= cfg.min_title_keywords
             THEN shared * Scale >= adjusted
             ELSE ~(cfg.min_title_keywords > 0)
        ELSE TRUE

\* one pass of the inner loop body (lines 478-542) for the pair (i, j)
Attaches(arts, cfg, i, j) ==
    /\ OutletGate(arts[i], arts[j], cfg)
    /\ TimeGate(arts[i], arts[j], cfg)
    /\ EntityGate(arts[i], arts[j], cfg)
    /\ TitleGate(arts[i], arts[j], cfg)

\* inner loop (lines 478-542): j runs over the whole list, skipping j <= i
\* and used positions; st = [used, members]
RECURSIVE MatchLoopIgnoringUsed(_, _, _, _, _)
MatchLoopIgnoringUsed(arts, cfg, i, j, st) ==
    IF j > Len(arts) THEN st
    ELSE IF j <= i
         THEN MatchLoopIgnoringUsed(arts, cfg, i, j + 1, st)
         ELSE IF Attaches(arts, cfg, i, j)
              THEN MatchLoopIgnoringUsed(arts, cfg, i, j + 1,
                             [used |-> st.used \cup {j},
                              members |-> Append(st.members, j)])
              ELSE MatchLoopIgnoringUsed(arts, cfg, i, j + 1, st)

RECURSIVE MatchLoop(_, _, _, _, _)
MatchLoop(arts, cfg, i, j, st) ==
    IF j > Len(arts) THEN st
    ELSE IF j <= i \/ j \in st.used
         THEN MatchLoop(arts, cfg, i, j + 1, st)
         ELSE IF Attaches(arts, cfg, i, j)
              THEN MatchLoop(arts, cfg, i, j + 1,
                             [used |-> st.used \cup {j},
                              members |-> Append(st.members, j)])
              ELSE MatchLoop(arts, cfg, i, j + 1, st)

\* line 545: an event is recorded only with more than one article
EmitEvent(evs, members) ==
    IF Len(members) > 1 THEN Append(evs, members) ELSE evs

\* outer loop (lines 454-548); st = [used, events]
RECURSIVE GroupLoop(_, _, _, _)
GroupLoop(arts, cfg, i, st) ==
    IF i > Len(arts) THEN st.events
    ELSE IF i \in st.used
         THEN GroupLoop(arts, cfg, i + 1, st)
         ELSE LET r == MatchLoop(arts, cfg, i, 1,
                                 [used |-> st.used \cup {i}, members |-> <<i>>])
              IN  GroupLoop(arts, cfg, i + 1,
                            [used |-> r.used,
                             events |-> EmitEvent(st.events, r.members)])

\* group_articles_into_events: events[event_id] = positions of its members
GroupArticlesIntoEvents(arts, cfg) ==
    GroupLoop(arts, cfg, 1, [used |-> {}, events |-> <<>>])

GroupInit ==
    /\ LoopIdle
    /\ HealthIdle
    /\ ValidIdle
    /\ CycleIdle
    /\ ExtractIdle
    /\ ClaimIdle
    /\ EqisIdle
    /\ FetchIdle
    /\ ScoreIdle
    /\ RepIdle
    /\ CfgIdle
    /\ BatchIdle
    /\ gArticles \in UNION {[1..n -> ArticleInputs] : n \in 0..MaxBatch}
    /\ gConfig \in GroupingConfigs
    /\ gEvents = <<>>
    /\ gPc = "ready"

GroupCall ==
    /\ gPc = "ready"
    /\ gEvents' = GroupArticlesIntoEvents(gArticles, gConfig)
    /\ gPc' = "done"
    /\ UNCHANGED <<gArticles, gConfig>>
    /\ GroupFrame

GroupNext == GroupCall

SpecGroup == GroupInit /\ [][GroupNext]_vars

EventMembers(e) == {gEvents[e][k] : k \in 1..Len(gEvents[e])}
MemberPubs(e) == {gArticles[m].pub : m \in EventMembers(e)} \ {NULL}

\* C4: in every emitted event the latest and the earliest published_at of
\* its members are at most max_time_diff_hours apart.
GroupingTimeWindow ==
    gPc = "done" =>
        \A e \in 1..Len(gEvents) : \A p, q \in MemberPubs(e) :
            Abs(p - q) <= gConfig.max_time_diff_hours

\* C5: with allow_same_outlet false no emitted event has two members with
\* the same outlet_name.
GroupingOutletPolicy ==
    (gPc = "done" /\ ~gConfig.allow_same_outlet) =>
        \A e \in 1..Len(gEvents) : \A k, l \in 1..Len(gEvents[e]) :
            k # l => gArticles[gEvents[e][k]].outlet
                       # gArticles[gEvents[e][l]].outlet

\* C6: no article is a member of two emitted events (or twice of one),
\* and every emitted event has at least two members.
EventMembershipUnique ==
    gPc = "done" =>
        /\ \A e \in 1..Len(gEvents) : Len(gEvents[e]) >= 2
        /\ \A e \in 1..Len(gEvents) : \A k, l \in 1..Len(gEvents[e]) :
               k # l => gEvents[e][k] # gEvents[e][l]
        /\ \A e, f \in 1..Len(gEvents) :
               e # f => EventMembers(e) \cap EventMembers(f) = {}

\* C21: for a batch of two articles that pass the outlet and the time gate
\* and share t >= min_title_keywords title keywords, the second is attached
\* to the first exactly when |S| >= required - min(t x title_keyword_bonus,
\* required x 0.5), with required = max(min_shared_entities, m x
\* entity_overlap_threshold).
TitleKeywordBonus ==
    ( /\ gPc = "done"
      /\ Len(gArticles) = 2
      /\ OutletGate(gArticles[1], gArticles[2], gConfig)
      /\ TimeGate(gArticles[1], gArticles[2], gConfig)
      /\ Cardinality(gArticles[1].content.title
                       \cap gArticles[2].content.title)
            >= gConfig.min_title_keywords )
    => LET t == Cardinality(gArticles[1].content.title
                               \cap gArticles[2].content.title)
           shared == Cardinality(gArticles[1].content.ents
                                    \cap gArticles[2].content.ents)
           required == RequiredShared(gArticles[1], gArticles[2], gConfig)
           reduction == Min(t * gConfig.title_keyword_bonus * (Scale \div 1000),
                            required \div 2)
       IN  (gEvents = <<(<<1, 2>>)>>) <=> (shared * Scale >= required - reduction)

\* article 2 joined the event of seed 1; seed 3 would have attached it as
\* well, found it used, and so produced no event of its own
EventMembershipUniqueWitness ==
    /\ gPc = "done"
    /\ Len(gArticles) = 3
    /\ gEvents = << <<1, 2>> >>
    /\ ~Attaches(gArticles, gConfig, 1, 3)
    /\ Attaches(gArticles, gConfig, 3, 2)

-----------------------------------------------------------------------------
(* quality-service: QualityService.calculate_article_quality_score         *)
(* Scores are kept in tenths; reputation values in half points, which      *)
(* covers the analyzer's integer totals and the authority x 2.5 fallback.  *)

\* writing_quality_analyzer.py line 107: total = min(100, ...)
MaxWritingTotal == 100
\* reputation_analyzer.py lines 89 and 209: min(100, ...)
MaxReputation == 100
\* largest outlet_authority.authority_score tried
MaxAuthority == 100
\* hours between published_at and now; NULL = no published_at
HoursAgo == {NULL, 0, 1, 6, 7, 24, 25, 48, 49, 72}

\* which way the reputation lookup of lines 145-163 and the outer try go:
\*   agency    validate_rss_feed_mapping returned a score > 0
\*   analyzer  no validated score, get_outlet_reputation answered
\*   authority the reputation system raised, authority_outlets is used
\*   simple    the scoring itself raised, lines 216-220
ScoreInputs ==
    [path : {"agency"}, writing : 0..MaxWritingTotal,
     rep2 : 1..(2 * MaxReputation), authority : {0}, hours_ago : HoursAgo]
    \cup
    [path : {"analyzer"}, writing : 0..MaxWritingTotal,
     rep2 : 0..(2 * MaxReputation), authority : {0}, hours_ago : HoursAgo]
    \cup
    [path : {"authority"}, writing : 0..MaxWritingTotal,
     rep2 : {0}, authority : 0..MaxAuthority, hours_ago : HoursAgo]
    \cup
    [path : {"simple"}, writing : {0},
     rep2 : {0}, authority : 0..MaxAuthority, hours_ago : {NULL}]

\* lines 153, 159, 163: outlet_reputation in tenths
ReputationAddend(in) ==
    IF in.path = "authority" THEN 10 * in.authority
    ELSE 2 * in.rep2

\* the recency bonus without its first band
RecencyBonusNoFirstBand(hours) ==
    IF hours = NULL THEN 0
    ELSE IF hours <= 24 THEN 3
    ELSE IF hours <= 48 THEN 1
    ELSE 0

\* lines 173-187: recency bonus
RecencyBonus(hours) ==
    IF hours = NULL THEN 0
    ELSE IF hours <= 6 THEN 5
    ELSE IF hours <= 24 THEN 3
    ELSE IF hours <= 48 THEN 1
    ELSE 0

\* lines 167-187: composite_score in tenths
CompositeScore(in) ==
    6 * in.writing + ReputationAddend(in) + 10 * RecencyBonus(in.hours_ago)

\* int(x) of a value in tenths: truncation toward zero
IntPart(c) == IF c >= 0 THEN c \div 10 ELSE 0 - ((0 - c) \div 10)

\* lines 193-198: custom rounding of a value in tenths to a whole number
CustomRoundTruncating(c) == IntPart(c)

CustomRound(c) ==
    LET decimal_part == c - 10 * IntPart(c)
    IN  IF decimal_part <= 5 THEN IntPart(c) ELSE IntPart(c) + 1

\* line 214: float(min(final_score, 100))
CapUncapped(score) == score

Cap(score) == Min(score, 100)

\* calculate_article_quality_score; the result in tenths
CalculateArticleQualityScore(in) ==
    IF in.path = "simple"
    THEN 10 * Min(in.authority + 35, 100)
    ELSE 10 * Cap(CustomRound(CompositeScore(in)))

ScoreInit ==
    /\ LoopIdle
    /\ HealthIdle
    /\ ValidIdle
    /\ CycleIdle
    /\ ExtractIdle
    /\ ClaimIdle
    /\ EqisIdle
    /\ FetchIdle
    /\ GroupIdle
    /\ RepIdle
    /\ CfgIdle
    /\ BatchIdle
    /\ qIn \in ScoreInputs
    /\ qScore = NULL
    /\ qPc = "ready"

ScoreCall ==
    /\ qPc = "ready"
    /\ qScore' = CalculateArticleQualityScore(qIn)
    /\ qPc' = "done"
    /\ UNCHANGED qIn
    /\ ScoreFrame

ScoreNext == ScoreCall

SpecScore == ScoreInit /\ [][ScoreNext]_vars

\* C2: every quality_score the worker gets to write is a whole number
\* between 0 and 100, on each of the four paths.
QualityScoreBounds ==
    qPc = "done" =>
        /\ qScore % 10 = 0
        /\ 0 <= qScore
        /\ qScore <= 10 * 100

\* the uncapped composite is above 100 and the stored score is 100
QualityScoreBoundsWitness ==
    /\ qPc = "done"
    /\ qIn.path = "authority"
    /\ CompositeScore(qIn) > 10 * 100
    /\ qScore = 10 * 100

-----------------------------------------------------------------------------
(* quality-service: ReputationAnalyzer (reputation_analyzer.py)             *)
(* One outlet. Scores are kept in half points (rep2), which covers the     *)
(* integer totals and the authority x 2.5 fallback.                         *)

\* largest award count tried for one award
MaxAwards == 4

CredibilityFactors ==
    {"correction_policy_exists", "retraction_transparency",
     "ownership_transparency", "funding_disclosure", "ethics_code_public"}

\* the news_agency_reputation_metrics rows tried; industry_memberships is
\* the length of the array, credibility the set of factors that are true
MetricsRows ==
    [id : {1},
     pulitzer_awards : 0..MaxAwards, murrow_awards : {0},
     peabody_awards : {0}, emmy_awards : {0},
     george_polk_awards : {0, 5}, dupont_awards : {0},
     spj_awards : {1}, other_specialized_awards : {0},
     press_freedom_ranking : {NULL, 20, 151},
     industry_memberships : {0, 4},
     editorial_independence_rating : {NULL, 7},
     fact_checking_standards : BOOLEAN,
     credibility : {{"correction_policy_exists"}, CredibilityFactors}]

\* outlet_authority.authority values tried (the table's scale is 0-40)
AuthorityRows == {NULL, 20, 45}

\* _calculate_awards_score with major awards above the cap counting nothing
CalculateAwardsScoreResetAboveCap(m) ==
    LET major == 10 * m.pulitzer_awards + 10 * m.murrow_awards
                 + 10 * m.peabody_awards + 10 * m.emmy_awards
        specialized_awards_score ==
            Min(20, 5 * m.george_polk_awards + 5 * m.dupont_awards
                    + 2 * m.spj_awards + 2 * m.other_specialized_awards)
    IN  (IF major > 40 THEN 0 ELSE major) + specialized_awards_score

\* lines 106-125: _calculate_awards_score
CalculateAwardsScore(m) ==
    LET major_awards_score ==
            Min(40, 10 * m.pulitzer_awards + 10 * m.murrow_awards
                    + 10 * m.peabody_awards + 10 * m.emmy_awards)
        specialized_awards_score ==
            Min(20, 5 * m.george_polk_awards + 5 * m.dupont_awards
                    + 2 * m.spj_awards + 2 * m.other_specialized_awards)
    IN  major_awards_score + specialized_awards_score

\* lines 166-179: _calculate_press_freedom_score
CalculatePressFreedomScore(ranking) ==
    IF ranking = NULL \/ ranking = 0 THEN 5
    ELSE IF ranking <= 20 THEN 10
    ELSE IF ranking <= 50 THEN 8
    ELSE IF ranking <= 100 THEN 6
    ELSE IF ranking <= 150 THEN 4
    ELSE 2

\* lines 127-150: _calculate_professional_standing
CalculateProfessionalStanding(m) ==
    LET press_freedom_points ==
            CalculatePressFreedomScore(m.press_freedom_ranking)
        membership_points == Min(6, 2 * m.industry_memberships)
        independence_rating ==
            IF m.editorial_independence_rating = NULL THEN 0
            ELSE m.editorial_independence_rating
        independence_points == Min(4, (4 * independence_rating) \div 10)
        fact_check_points == IF m.fact_checking_standards THEN 5 ELSE 0
    IN  Min(25, press_freedom_points + membership_points
                + independence_points + fact_check_points)

\* lines 152-164: _calculate_credibility_score
CalculateCredibilityScore(m) == 3 * Cardinality(m.credibility)

\* line 89: total_score
TotalScore(m) ==
    Min(100, CalculateAwardsScore(m) + CalculateProfessionalStanding(m)
             + CalculateCredibilityScore(m))

\* get_basic_authority_score without the conversion to the 0-100 scale
GetBasicAuthorityScoreUnscaled(authority, readFails) ==
    IF readFails \/ authority = NULL THEN 2 * 30
    ELSE Min(2 * 100, 2 * authority)

\* lines 196-216: get_basic_authority_score, in half points
GetBasicAuthorityScore(authority, readFails) ==
    IF readFails \/ authority = NULL THEN 2 * 30
    ELSE Min(2 * 100, 5 * authority)

\* lines 218-241: _update_reputation_metrics_scores; the UPDATE commits on
\* its own, a failure is logged and rolled back
UpdateReputationMetricsScores(final, total, writeFails) ==
    IF writeFails THEN final ELSE 2 * total

\* lines 243-285: _update_outlet_reputation_cache; the upsert commits on
\* its own, a failure is logged and rolled back
UpdateOutletReputationCache(cache, total, writeFails) ==
    IF writeFails THEN cache ELSE 2 * total

\* how a read ended
ReadOutcome(fails, row) ==
    IF fails THEN "failed" ELSE IF row THEN "row" ELSE "none"

\* lines 58-104: calculate_reputation_score; [final, cache, ret, reads]
CalculateReputationScore(mReadFails, aReadFails, mWriteFails, cWriteFails) ==
    IF mReadFails \/ repMetrics.id = 0
    THEN [final |-> repFinal, cache |-> repCache,
          ret |-> GetBasicAuthorityScore(repAuthority, aReadFails),
          reads |-> [cache |-> "skipped",
                     metrics |-> ReadOutcome(mReadFails, repMetrics.id # 0),
                     authority |-> ReadOutcome(aReadFails,
                                               repAuthority # NULL)]]
    ELSE LET total == TotalScore(repMetrics)
         IN  [final |-> UpdateReputationMetricsScores(repFinal, total,
                                                      mWriteFails),
              cache |-> UpdateOutletReputationCache(repCache, total,
                                                    cWriteFails),
              ret |-> 2 * total,
              reads |-> [cache |-> "skipped", metrics |-> "row",
                         authority |-> "skipped"]]

\* a direct call of calculate_reputation_score
CalculateCall ==
    \E mr, ar, mw, cw \in BOOLEAN :
        LET r == CalculateReputationScore(mr, ar, mw, cw)
        IN  /\ repFinal' = r.final
            /\ repCache' = r.cache
            /\ repReturned' = r.ret
            /\ repCall' = "calculate_reputation_score"
            /\ repReads' = r.reads
            /\ UNCHANGED <<repMetrics, repAuthority>>
            /\ RepFrame

\* lines 300-311: get_outlet_reputation; lines 313-326: a failed cache read
\* answers None
GetOutletReputation ==
    \E cr, mr, ar, mw, cw \in BOOLEAN :
        LET cached_score == IF cr THEN NULL ELSE repCache
            r == IF cached_score # NULL
                 THEN [final |-> repFinal, cache |-> repCache,
                       ret |-> cached_score, reads |-> NoReads]
                 ELSE CalculateReputationScore(mr, ar, mw, cw)
        IN  /\ repFinal' = r.final
            /\ repCache' = r.cache
            /\ repReturned' = r.ret
            /\ repCall' = "get_outlet_reputation"
            /\ repReads' = [r.reads EXCEPT
                               !.cache = ReadOutcome(cr, repCache # NULL)]
            /\ UNCHANGED <<repMetrics, repAuthority>>
            /\ RepFrame

RepInit ==
    /\ LoopIdle
    /\ HealthIdle
    /\ ValidIdle
    /\ CycleIdle
    /\ ExtractIdle
    /\ ClaimIdle
    /\ EqisIdle
    /\ FetchIdle
    /\ GroupIdle
    /\ ScoreIdle
    /\ CfgIdle
    /\ BatchIdle
    /\ repMetrics \in MetricsRows \cup {NoMetrics}
    /\ repAuthority \in AuthorityRows
    /\ repFinal = NULL
    /\ repCache = NULL
    /\ repReturned = NULL
    /\ repCall = "none"
    /\ repReads = NoReads

RepNext == CalculateCall \/ GetOutletReputation

SpecReputation == RepInit /\ [][RepNext]_vars

\* C7: once the analyzer has returned for an outlet that has an
\* agency-metrics row, the cache row's reputation_score equals the metrics
\* row's final_reputation_score, whichever of the two writes failed.
CacheCoherence ==
    (repReturned # NULL /\ repMetrics.id # 0 /\ repCache # NULL) =>
        repCache = repFinal

\* the agency-metrics row with one more Pulitzer
OneMorePulitzer(m) == [m EXCEPT !.pulitzer_awards = @ + 1]

\* C14: when calculate_reputation_score has returned the total of the
\* outlet's agency-metrics row, the total of the same row with one more
\* Pulitzer is not smaller.
PulitzerMonotone ==
    ( /\ repCall = "calculate_reputation_score"
      /\ repReads.metrics = "row" )
    => /\ repReturned = 2 * TotalScore(repMetrics)
       /\ 2 * TotalScore(OneMorePulitzer(repMetrics)) >= repReturned

\* a total was returned for a row whose major awards are at their cap, and
\* one more Pulitzer leaves it as it is
PulitzerMonotoneWitness ==
    /\ repCall = "calculate_reputation_score"
    /\ repReads.metrics = "row"
    /\ repMetrics.pulitzer_awards = 4
    /\ repReturned = 2 * TotalScore(repMetrics)
    /\ TotalScore(OneMorePulitzer(repMetrics)) = TotalScore(repMetrics)

\* C15: for an outlet without a cache row whose agency-metrics read found
\* no row or failed, the analyzer returns 2.5 times the outlet's authority,
\* at most 100, when the authority read found a row, and 30 when it found
\* none or failed (in half points).
FallbackChain ==
    ( /\ repCall # "none"
      /\ repCache = NULL
      /\ repReads.metrics \in {"none", "failed"} )
    => /\ repReads.authority = "row" =>
              repReturned = Min(200, 5 * repAuthority)
       /\ repReads.authority \in {"none", "failed"} => repReturned = 60
       /\ repReads.authority # "skipped"

\* get_outlet_reputation for an outlet with authority 20 and no other row
\* returned 50
FallbackChainWitness ==
    /\ repCall = "get_outlet_reputation"
    /\ repCache = NULL
    /\ repMetrics = NoMetrics
    /\ repReads = [cache |-> "none", metrics |-> "none", authority |-> "row"]
    /\ repAuthority = 20
    /\ repReturned = 100

-----------------------------------------------------------------------------
(* quality-service: PerformanceConfigurationManager                         *)
(* (performance_config_manager.py). One service instance, restarted any    *)
(* number of times; performance scores are whole points.                   *)

\* most rows of performance_config_snapshots tried
MaxSnapshots == 2
\* largest config_generation tried
MaxGeneration == 3

\* line 36: self.performance_threshold
PerformanceThreshold == 70

\* the keys of current_config (lines 118-126 and 130-142)
ConfigKeys == DOMAIN ConservativeDefaults

\* main.py lines 730-740: the keys of performance_metrics
MetricsKeys ==
    {"articles_processed", "events_created", "processing_time_ms",
     "entities_extracted_total", "event_creation_rate",
     "coverage_percentage", "avg_articles_per_event",
     "singleton_events_count", "entities_per_article"}

\* lines 173-178: the score keys save_performance_snapshot adds
ScoreKeys ==
    {"performance_score", "effectiveness_score", "efficiency_score",
     "coverage_score", "precision_score", "score_trend"}

\* lines 147-150, 179-182, 396-399: the bookkeeping keys
StartupKeys ==
    ConfigKeys
    \cup {"config_source", "service_instance", "notes", "config_generation"}

\* lines 170-183: the keys of a runtime snapshot
RuntimeKeys == StartupKeys \cup MetricsKeys \cup ScoreKeys

\* lines 207-227: the named parameters of the INSERT
InsertParameters ==
    ConfigKeys \cup MetricsKeys \cup ScoreKeys
    \cup {"config_source", "service_instance", "notes", "config_generation"}

\* lines 230-234: the keys given a default before the INSERT
SetDefaultKeys ==
    {"articles_processed", "events_created", "processing_time_ms",
     "entities_extracted_total", "performance_score"}

\* lines 200-248: _save_config_snapshot. The INSERT is executed with the
\* snapshot dict as its parameters, so a named parameter without a key
\* raises; a raise or a store failure leaves the table as it was.
SaveConfigSnapshot(rows, keys, row, dbFails) ==
    IF dbFails \/ ~(InsertParameters \subseteq (keys \cup SetDefaultKeys))
    THEN [ok |-> FALSE, rows |-> rows]
    ELSE [ok |-> TRUE, rows |-> Append(rows, row)]

\* a row of performance_config_snapshots; recent = younger than 30 days
SnapshotRow(config, source, generation, score) ==
    [config |-> config, config_source |-> source,
     config_generation |-> generation, performance_score |-> score,
     recent |-> TRUE]


\* lines 67-79: the highest-scoring snapshot of the last 30 days with
\* score >= threshold and source runtime or manual, the latest one among
\* equals; 0 when there is none
BestSnapshot(rows) ==
    LET c == {i \in 1..Len(rows) :
                 /\ rows[i].recent
                 /\ rows[i].performance_score >= PerformanceThreshold
                 /\ rows[i].config_source \in {"runtime", "manual"}}
    IN  IF c = {} THEN 0
        ELSE CHOOSE i \in c : \A j \in c :
                 \/ rows[j].performance_score < rows[i].performance_score
                 \/ /\ rows[j].performance_score = rows[i].performance_score
                    /\ j <= i

\* lines 32-41 and 56-116: a new manager (config_generation = 1) loads its
\* configuration; [config, generation, stored]
LoadStartupConfiguration(rows, dbFails) ==
    IF dbFails
    THEN [config |-> ConservativeDefaults, generation |-> 1,
          stored |-> FALSE]
    ELSE IF BestSnapshot(rows) # 0
    THEN [config |-> rows[BestSnapshot(rows)].config,
          generation |-> rows[BestSnapshot(rows)].config_generation + 1,
          stored |-> TRUE]
    ELSE IF Len(rows) > 0
    THEN [config |-> rows[Len(rows)].config, generation |-> 1,
          stored |-> TRUE]
    ELSE [config |-> ConservativeDefaults, generation |-> 1,
          stored |-> TRUE]

\* main.py lines 45-47: the service starts (or restarts): it builds a
\* manager and loads the startup configuration; lines 144-157 try to
\* store the startup snapshot and swallow a failure
Startup ==
    \E loadFails, saveFails \in BOOLEAN :
        LET l == LoadStartupConfiguration(cfgSnapshots, loadFails)
            saved == SaveConfigSnapshot(cfgSnapshots, StartupKeys,
                         SnapshotRow(l.config, "startup", l.generation, 0),
                         saveFails)
        IN  /\ l.generation <= MaxGeneration
            /\ Len(saved.rows) <= MaxSnapshots
            /\ cfgCurrent' = l.config
            /\ cfgGeneration' = l.generation
            /\ cfgSnapshots' = IF l.stored THEN saved.rows ELSE cfgSnapshots
            /\ cfgRet' = [op |-> "load_startup_configuration", ret |-> 0]
            /\ UNCHANGED cfgChangeEvents
            /\ CfgFrame


\* the components of the overall score
Components == {"effectiveness", "efficiency", "coverage", "precision"}

\* the score_data tried: the overall score and what else the tuner reads,
\* the worst component, event_creation_rate in thousandths and
\* avg_articles_per_event in tenths
ScoreData ==
    [overall_score : {50, 80, 90}, worst_component : {"coverage"},
     event_creation_rate : {100}, avg_articles_per_event : {20}]

When(cond, param, value) == IF cond THEN {<<param, value>>} ELSE {}

\* coverage adjustments without the tests and the floor
CoverageAdjustmentsUnguarded(c) ==
    {<<"min_shared_entities", c.min_shared_entities - 1>>,
     <<"entity_overlap_threshold", c.entity_overlap_threshold - 30>>}

\* lines 308-314: the adjustments for worst component 'coverage'
CoverageAdjustments(c) ==
    When(c.min_shared_entities > 1,
         "min_shared_entities", c.min_shared_entities - 1)
    \cup When(c.entity_overlap_threshold > 200, "entity_overlap_threshold",
              Max(200, c.entity_overlap_threshold - 30))

\* lines 282-333: _generate_auto_tune_adjustments, a set of
\* <<parameter, suggested value>>
GenerateAutoTuneAdjustments(worst_component, score_data, c) ==
    IF worst_component = "effectiveness"
    THEN IF score_data.event_creation_rate < 150
         THEN When(c.min_shared_entities > 1, "min_shared_entities",
                   Max(1, c.min_shared_entities - 1))
              \cup When(c.entity_overlap_threshold > 150,
                        "entity_overlap_threshold",
                        Max(150, c.entity_overlap_threshold - 50))
              \cup When(c.max_time_diff_hours < 72, "max_time_diff_hours",
                        Min(72, c.max_time_diff_hours + 12))
         ELSE {}
    ELSE IF worst_component = "efficiency"
    THEN When(c.max_entity_length > 30, "max_entity_length", 30)
         \cup When(c.entity_noise_threshold < 300,
                   "entity_noise_threshold", 300)
    ELSE IF worst_component = "coverage"
    THEN CoverageAdjustments(c)
    ELSE IF score_data.avg_articles_per_event < 18
    THEN CoverageAdjustments(c)
    ELSE IF score_data.avg_articles_per_event > 45
    THEN When(c.min_shared_entities < 3, "min_shared_entities",
              c.min_shared_entities + 1)
         \cup When(c.entity_overlap_threshold < 350,
                   "entity_overlap_threshold",
                   Min(350, c.entity_overlap_threshold + 50))
    ELSE {}

\* lines 250-280 and 335-361: _consider_auto_tuning logs the suggestions as
\* config_change_events rows in one transaction and changes nothing else
ConsiderAutoTuning(events, score_data, snapshot_id, c, dbFails) ==
    IF score_data.overall_score >= PerformanceThreshold - 10 \/ dbFails
    THEN events
    ELSE events \cup
         { [parameter_name |-> a[1], old_value |-> c[a[1]],
            new_value |-> a[2],
            change_reason |->
                <<"auto_tune_suggestion", score_data.worst_component>>,
            config_snapshot_id |-> snapshot_id] :
           a \in GenerateAutoTuneAdjustments(score_data.worst_component,
                                             score_data, c) }


\* lines 159-198: save_performance_snapshot; returns the snapshot id, or -1
\* when anything raised (current_config still None, the INSERT failed);
\* [rows, events, ret]
PerformanceSnapshot(rows, events, c, gen, score_data, saveFails, logFails) ==
    LET saved == SaveConfigSnapshot(rows, RuntimeKeys,
                     SnapshotRow(c, "runtime", gen,
                                 score_data.overall_score),
                     saveFails)
    IN  IF c = NoConfig \/ ~saved.ok
        THEN [rows |-> rows, events |-> events, ret |-> NULL]
        ELSE [rows |-> saved.rows,
              events |->
                  IF score_data.overall_score < PerformanceThreshold
                  THEN ConsiderAutoTuning(events, score_data,
                                          Len(saved.rows), c, logFails)
                  ELSE events,
              ret |-> Len(saved.rows)]

\* a snapshot save that applied what the tuner suggests
SnapshotStepApplying(scores) ==
    \E score_data \in scores, saveFails, logFails \in BOOLEAN :
        LET r == PerformanceSnapshot(cfgSnapshots, cfgChangeEvents,
                     cfgCurrent, cfgGeneration, score_data,
                     saveFails, logFails)
            adj == IF r.ret = NULL
                      \/ score_data.overall_score >= PerformanceThreshold - 10
                   THEN {}
                   ELSE GenerateAutoTuneAdjustments(
                            score_data.worst_component, score_data,
                            cfgCurrent)
        IN  /\ Len(cfgSnapshots) < MaxSnapshots
            /\ cfgSnapshots' = r.rows
            /\ cfgChangeEvents' = r.events
            /\ cfgRet' = [op |-> "save_performance_snapshot", ret |-> r.ret]
            /\ cfgCurrent' =
                   IF cfgCurrent = NoConfig THEN cfgCurrent
                   ELSE [k \in DOMAIN cfgCurrent |->
                            IF \E a \in adj : a[1] = k
                            THEN (CHOOSE a \in adj : a[1] = k)[2]
                            ELSE cfgCurrent[k]]
            /\ UNCHANGED cfgGeneration
            /\ CfgFrame

\* lines 159-198: a save_performance_snapshot call whose scorer answers one
\* of the given scores
SnapshotStep(scores) ==
    \E score_data \in scores, saveFails, logFails \in BOOLEAN :
        LET r == PerformanceSnapshot(cfgSnapshots, cfgChangeEvents,
                     cfgCurrent, cfgGeneration, score_data,
                     saveFails, logFails)
        IN  /\ Len(cfgSnapshots) < MaxSnapshots
            /\ cfgSnapshots' = r.rows
            /\ cfgChangeEvents' = r.events
            /\ cfgRet' = [op |-> "save_performance_snapshot", ret |-> r.ret]
            /\ UNCHANGED <<cfgCurrent, cfgGeneration>>
            /\ CfgFrame

SavePerformanceSnapshot == SnapshotStep(ScoreData)

\* the updates and reasons a caller of update_configuration passes
UpdateInputs ==
    { [k \in {} |-> 0],
      [k \in {"min_shared_entities"} |-> 1],
      [k \in {"max_clusters"} |-> 1] }

Reasons == {"manual_update", "auto_tune_coverage"}

\* line 385: self.current_config.update(updates)
ApplyUpdates(c, updates) ==
    [k \in DOMAIN c |-> IF k \in DOMAIN updates THEN updates[k] ELSE c[k]]

\* lines 369-407: update_configuration; ret 1 = True, 0 = False
UpdateConfiguration ==
    \E updates \in UpdateInputs, reason \in Reasons, saveFails \in BOOLEAN :
        IF DOMAIN updates = {}
        THEN /\ cfgRet' = [op |-> "update_configuration", ret |-> 1]
             /\ UNCHANGED <<cfgSnapshots, cfgChangeEvents, cfgCurrent,
                            cfgGeneration>>
             /\ CfgFrame
        ELSE IF ~(DOMAIN updates \subseteq ConfigKeys) \/ cfgCurrent = NoConfig
        THEN /\ cfgRet' = [op |-> "update_configuration", ret |-> 0]
             /\ UNCHANGED <<cfgSnapshots, cfgChangeEvents, cfgCurrent,
                            cfgGeneration>>
             /\ CfgFrame
        ELSE LET c == ApplyUpdates(cfgCurrent, updates)
                 saved == SaveConfigSnapshot(cfgSnapshots, StartupKeys,
                              SnapshotRow(c,
                                  IF reason = "manual_update"
                                  THEN "manual" ELSE "auto_tune",
                                  cfgGeneration + 1, 0),
                              saveFails)
             IN  /\ cfgGeneration < MaxGeneration
                 /\ Len(saved.rows) <= MaxSnapshots
                 /\ cfgCurrent' = c
                 /\ cfgGeneration' = cfgGeneration + 1
                 /\ cfgSnapshots' = saved.rows
                 /\ cfgRet' = [op |-> "update_configuration",
                               ret |-> IF saved.ok THEN 1 ELSE 0]
                 /\ UNCHANGED cfgChangeEvents
                 /\ CfgFrame

\* thirty days go by: no stored snapshot is of the last 30 days any more
ThirtyDaysPass ==
    /\ \E i \in 1..Len(cfgSnapshots) : cfgSnapshots[i].recent
    /\ cfgSnapshots' =
           [i \in 1..Len(cfgSnapshots) |->
               [cfgSnapshots[i] EXCEPT !.recent = FALSE]]
    /\ UNCHANGED <<cfgChangeEvents, cfgCurrent, cfgGeneration, cfgRet>>
    /\ CfgFrame

\* lines 32-41: a manager that has been constructed and has loaded nothing
CfgInit ==
    /\ LoopIdle
    /\ HealthIdle
    /\ ValidIdle
    /\ CycleIdle
    /\ ExtractIdle
    /\ ClaimIdle
    /\ EqisIdle
    /\ FetchIdle
    /\ GroupIdle
    /\ ScoreIdle
    /\ RepIdle
    /\ BatchIdle
    /\ cfgSnapshots = <<>>
    /\ cfgChangeEvents = {}
    /\ cfgCurrent = NoConfig
    /\ cfgGeneration = 1
    /\ cfgRet = [op |-> "none", ret |-> NULL]

CfgNext ==
    \/ Startup
    \/ SavePerformanceSnapshot
    \/ UpdateConfiguration
    \/ ThirtyDaysPass

SpecConfig == CfgInit /\ [][CfgNext]_vars

\* C8: every stored snapshot carries a config_generation greater than or
\* equal to that of the snapshot stored before it, across startups,
\* runtime snapshots and configuration updates of the one instance.
SnapshotMonotonicity ==
    \A i \in 2..Len(cfgSnapshots) :
        cfgSnapshots[i].config_generation
            >= cfgSnapshots[i - 1].config_generation

\* C18: every update_configuration call that applied its updates (all keys
\* valid, whatever the reason) adds a row to config_change_events and
\* stores a snapshot whose config_source is 'manual'.
ManualUpdateRecorded ==
    [][cfgRet'.op = "update_configuration"
       /\ cfgGeneration' = cfgGeneration + 1 =>
           /\ cfgChangeEvents' # cfgChangeEvents
           /\ Len(cfgSnapshots') = Len(cfgSnapshots) + 1
           /\ cfgSnapshots'[Len(cfgSnapshots')].config_source = "manual"]_vars

\* C23: a load_startup_configuration call leaves as current configuration
\* the parameters of the highest-scoring snapshot of the last 30 days with
\* score >= 70 and source runtime or manual, else those of the latest
\* snapshot, else the conservative defaults, and appends a snapshot with
\* config_source 'startup'.
StartupConfiguration ==
    [][ ( /\ cfgRet'.op = "load_startup_configuration"
          /\ Len(cfgSnapshots') >= Len(cfgSnapshots)
          /\ \A i \in 1..Len(cfgSnapshots) :
                 cfgSnapshots'[i] = cfgSnapshots[i] )
        => ( /\ cfgCurrent' =
                    IF BestSnapshot(cfgSnapshots) # 0
                    THEN cfgSnapshots[BestSnapshot(cfgSnapshots)].config
                    ELSE IF Len(cfgSnapshots) > 0
                    THEN cfgSnapshots[Len(cfgSnapshots)].config
                    ELSE ConservativeDefaults
             /\ Len(cfgSnapshots') = Len(cfgSnapshots) + 1
             /\ cfgSnapshots'[Len(cfgSnapshots')].config_source
                    = "startup" ) ]_vars

\* the documented ranges of the parameters the tuner adjusts (thresholds
\* in thousandths)
DocumentedRange ==
    [min_shared_entities |-> 1..6, entity_overlap_threshold |-> 150..500,
     max_time_diff_hours |-> 6..96, max_entity_length |-> 30..80,
     entity_noise_threshold |-> 100..400]

InDocumentedRanges(c) ==
    /\ c # NoConfig
    /\ \A k \in DOMAIN DocumentedRange : c[k] \in DocumentedRange[k]

\* current configurations inside the documented ranges, at and next to the
\* floors and caps the tuner uses
TuneConfigs ==
    { [ConservativeDefaults EXCEPT !.min_shared_entities = m,
                                   !.entity_overlap_threshold = o,
                                   !.max_time_diff_hours = r[1],
                                   !.max_entity_length = r[2],
                                   !.entity_noise_threshold = r[3]] :
      m \in {1, 2, 6}, o \in {150, 160, 220, 500},
      r \in {<<6, 30, 100>>, <<66, 80, 100>>, <<96, 80, 400>>} }

\* the score_data of these runs: every worst component, event creation
\* rates on both sides of 0.15, articles per event under 1.8, between and
\* over 4.5
TuneScoreData ==
    {sd \in [overall_score : {50, 80}, worst_component : Components,
             event_creation_rate : {100, 150},
             avg_articles_per_event : {10, 20, 50}] :
        /\ sd.worst_component # "effectiveness"
               => sd.event_creation_rate = 100
        /\ sd.worst_component # "precision"
               => sd.avg_articles_per_event = 20
        /\ sd.overall_score = 80 => sd.worst_component = "coverage"}

\* most snapshots saved in these runs
MaxTuneSnapshots == 1

TuneSnapshot ==
    /\ Len(cfgSnapshots) < MaxTuneSnapshots
    /\ SnapshotStep(TuneScoreData)

\* a running manager whose current configuration is any of TuneConfigs
TuneInit ==
    /\ LoopIdle
    /\ HealthIdle
    /\ ValidIdle
    /\ CycleIdle
    /\ ExtractIdle
    /\ ClaimIdle
    /\ EqisIdle
    /\ FetchIdle
    /\ GroupIdle
    /\ ScoreIdle
    /\ RepIdle
    /\ BatchIdle
    /\ cfgSnapshots = <<>>
    /\ cfgChangeEvents = {}
    /\ cfgCurrent \in TuneConfigs
    /\ cfgGeneration = 1
    /\ cfgRet = [op |-> "load_startup_configuration", ret |-> 0]

TuneNext == TuneSnapshot \/ UpdateConfiguration

SpecTune == TuneInit /\ [][TuneNext]_vars

\* C27: save_performance_snapshot, with the auto-tuning it may consider,
\* leaves the current configuration and the generation counter as they
\* were for every metrics input, and the configuration the grouping reads
\* changes only in an update_configuration call (or when the service starts
\* and loads it).
AutoTuneAdvisory ==
    [][ /\ (cfgRet'.op = "save_performance_snapshot")
            => (cfgCurrent' = cfgCurrent /\ cfgGeneration' = cfgGeneration)
        /\ (cfgCurrent' # cfgCurrent \/ cfgGeneration' # cfgGeneration)
            => cfgRet'.op \in {"update_configuration",
                               "load_startup_configuration"} ]_vars

\* a snapshot was saved with a score under the tolerance and the tuner's
\* suggestions were logged
AutoTuneAdvisoryWitness ==
    /\ cfgRet.op = "save_performance_snapshot"
    /\ cfgRet.ret # NULL
    /\ cfgCurrent # NoConfig
    /\ \E e \in cfgChangeEvents :
           /\ e.config_snapshot_id = cfgRet.ret
           /\ e.new_value # cfgCurrent[e.parameter_name]

\* C28: when the current configuration lies within the documented ranges,
\* every value _generate_auto_tune_adjustments proposes, for any worst
\* component and score details, lies within the documented range of its
\* parameter; the proposals are read where the tuner logs them.
AutoTuneWithinRanges ==
    /\ \A c \in TuneConfigs, sd \in TuneScoreData :
           \A a \in GenerateAutoTuneAdjustments(sd.worst_component, sd, c) :
               a[2] \in DocumentedRange[a[1]]
    /\ InDocumentedRanges(cfgCurrent)
           => \A e \in cfgChangeEvents :
                  e.new_value \in DocumentedRange[e.parameter_name]

\* proposals at a floor and at a cap were logged: the overlap threshold
\* lowered to 0.150 and the time window raised to 72 hours
AutoTuneWithinRangesWitness ==
    /\ InDocumentedRanges(cfgCurrent)
    /\ \E e \in cfgChangeEvents :
           /\ e.parameter_name = "entity_overlap_threshold"
           /\ e.new_value = 150
           /\ e.old_value = 160
    /\ \E e \in cfgChangeEvents :
           /\ e.parameter_name = "max_time_diff_hours"
           /\ e.new_value = 72

\* C29: whenever update_configuration returns False (an invalid key was
\* submitted, or writing the snapshot failed), the current configuration
\* and the generation counter are the same as before the call.
FailedUpdateChangesNothing ==
    [][ (cfgRet'.op = "update_configuration" /\ cfgRet'.ret = 0)
        => (cfgCurrent' = cfgCurrent /\ cfgGeneration' = cfgGeneration)
      ]_vars

-----------------------------------------------------------------------------
(* quality-service: QualityService.process_articles_batch (main.py)         *)
(* The clock and every timestamp are in hours.                              *)

\* most rows of the articles table tried
MaxStore == 2
\* self.batch_size tried (line 40)
BatchSize == 2
\* most batches run
MaxRuns == 2
\* the clock starts here and stops there
FirstHour == 100
LastHour == 104
\* hours that go by between two batches
ClockSteps == {2, 4}

\* writing_quality_analyzer.py line 408: total_score of the neutral profile
NeutralWritingTotal == 49

\* what the reputation analyzer answers for each outlet, in half points
OutletReputation2 == [o \in Outlets |-> IF o = "Reuters" THEN 190 ELSE 170]

\* rows as the fetcher leaves them: long = LENGTH(text) > 100
FreshRows ==
    [outlet : Outlets, pub : {NULL, 30, 97},
     content : {[ents |-> {"biden", "pittsburgh"},
                 title |-> {"president", "bill"}]},
     long : BOOLEAN, quality_score : {NULL}, quality_computed_at : {NULL},
     ner_extracted_at : {NULL}, computed_event_id : {NULL}]

\* lines 566-576: the WHERE clause
NeedsProcessing(r, now) ==
    /\ r.long
    /\ \/ /\ r.pub # NULL
          /\ r.pub > now - 72
          /\ \/ r.quality_score = NULL
             \/ r.quality_computed_at < now - 1
       \/ r.ner_extracted_at = NULL

\* lines 577-579: ORDER BY missing NER first, then published_at DESC (NULLs
\* first); rows with equal keys come in any order
SortsBefore(r1, r2) ==
    LET nerClass(r) == IF r.ner_extracted_at = NULL THEN 0 ELSE 1
    IN  \/ nerClass(r1) < nerClass(r2)
        \/ /\ nerClass(r1) = nerClass(r2)
           /\ \/ r1.pub = NULL /\ r2.pub # NULL
              \/ r1.pub # NULL /\ r2.pub # NULL /\ r1.pub > r2.pub

\* lines 563-582: the batches the SELECT ... LIMIT can return, as sequences
\* of article ids
Selections(store, now) ==
    LET ids == {i \in 1..Len(store) : NeedsProcessing(store[i], now)}
        n == Cardinality(ids)
        orders == {f \in [1..n -> ids] :
                      /\ \A i, j \in 1..n : i # j => f[i] # f[j]
                      /\ \A i, j \in 1..n :
                             i < j => ~SortsBefore(store[f[j]], store[f[i]])}
    IN  {SubSeq(f, 1, Min(n, BatchSize)) : f \in orders}

\* lines 599-601: the score of one selected row at the time of the batch
ArticleScore(r, now) ==
    CalculateArticleQualityScore(
        [path |-> "analyzer", writing |-> NeutralWritingTotal,
         rep2 |-> OutletReputation2[r.outlet], authority |-> 0,
         hours_ago |-> IF r.pub = NULL THEN NULL ELSE now - r.pub])


\* the event (1-based, in creation order) that holds position k of the
\* batch; 0 when none does
EventOfPosition(events, k) ==
    IF \E e \in 1..Len(events) : \E m \in 1..Len(events[e]) : events[e][m] = k
    THEN CHOOSE e \in 1..Len(events) :
             \E m \in 1..Len(events[e]) : events[e][m] = k
    ELSE 0

PositionOf(sel, id) ==
    IF \E k \in 1..Len(sel) : sel[k] = id
    THEN CHOOSE k \in 1..Len(sel) : sel[k] = id
    ELSE 0

\* lines 629-651 and 706-711: the row of article id after the UPDATEs of a
\* batch that selected sel and grouped it into events
UpdatedRow(store, id, sel, events, firstEventId, now) ==
    LET k == PositionOf(sel, id)
        e == EventOfPosition(events, k)
    IN  IF k = 0 THEN store[id]
        ELSE [store[id] EXCEPT
                 !.quality_score = ArticleScore(store[id], now),
                 !.quality_computed_at = now,
                 !.ner_extracted_at = now,
                 !.computed_event_id =
                     IF e = 0 THEN @ ELSE firstEventId + e - 1]

\* a batch that writes no event_articles rows
NewLinksNone(sel, events, firstEventId) == {}

\* lines 691-697: the event_articles rows of the batch
NewLinks(sel, events, firstEventId) ==
    UNION { { <<firstEventId + e - 1, sel[events[e][m]]>> :
                m \in 1..Len(events[e]) } : e \in 1..Len(events) }

SaveSnapshotDueAlways(last, now, events) == TRUE

\* lines 743-749: save_snapshot; (current_time - last).seconds is the
\* seconds part of the difference, without its days
SaveSnapshotDue(last, now, events) ==
    \/ last = NULL
    \/ ((now - last) % 24) * 3600 >= 300
    \/ Len(events) > 0

\* what can go wrong in the store during one batch:
\*   store  the connection, the SELECT or a score UPDATE raises; the outer
\*          except answers 0 and nothing is committed
\*   event  a statement of the event loop raises; the loop goes on, the
\*          transaction is aborted and the commit at line 725 stores nothing
BatchFailures == {"none", "store", "event"}

\* lines 554-765: process_articles_batch, with the store failures and the
\* scores of the performance scorer drawn from the given sets
BatchStep(failures, scores) ==
    \E sel \in Selections(bStore, bNow), fail \in failures,
       score_data \in scores, saveFails, logFails \in BOOLEAN :
        LET arts == [k \in 1..Len(sel) |-> bStore[sel[k]]]
            events == GroupArticlesIntoEvents(arts, cfgCurrent)
            committed == fail = "none" /\ sel # <<>>
            returned == sel # <<>> /\ fail # "store"
            due == returned /\ SaveSnapshotDue(bLastSnapshotTime, bNow, events)
            snap == PerformanceSnapshot(cfgSnapshots, cfgChangeEvents,
                        cfgCurrent, cfgGeneration, score_data,
                        saveFails, logFails)
        IN  /\ bRuns < MaxRuns
            /\ fail = "event" => Len(events) > 0
            /\ due => Len(cfgSnapshots) < MaxSnapshots
            /\ bRuns' = bRuns + 1
            /\ bStore' =
                   IF committed
                   THEN [id \in 1..Len(bStore) |->
                            UpdatedRow(bStore, id, sel, events,
                                       bEvents + 1, bNow)]
                   ELSE bStore
            /\ bEvents' = IF committed THEN bEvents + Len(events) ELSE bEvents
            /\ bLinks' =
                   IF committed
                   THEN bLinks \cup NewLinks(sel, events, bEvents + 1)
                   ELSE bLinks
            /\ bLast' = [selection |-> sel,
                         ret |-> IF returned THEN Len(sel) ELSE 0,
                         committed |-> committed]
            /\ bLastSnapshotTime' = IF due THEN bNow ELSE bLastSnapshotTime
            /\ cfgSnapshots' = IF due THEN snap.rows ELSE cfgSnapshots
            /\ cfgChangeEvents' = IF due THEN snap.events ELSE cfgChangeEvents
            /\ cfgRet' = IF due
                         THEN [op |-> "save_performance_snapshot",
                               ret |-> snap.ret]
                         ELSE cfgRet
            /\ UNCHANGED <<bNow, cfgCurrent, cfgGeneration>>
            /\ BatchFrame

ProcessArticlesBatch == BatchStep(BatchFailures, ScoreData)

\* lines 784-792: the worker sleeps between two batches
AdvanceClock ==
    \E d \in ClockSteps :
        /\ bNow + d <= LastHour
        /\ bNow' = bNow + d
        /\ UNCHANGED <<bStore, bEvents, bLinks, bLast, bRuns,
                       bLastSnapshotTime, cfgVars>>
        /\ BatchFrame

\* lines 36-59: the service has started with the conservative defaults;
\* the articles table holds rows the fetcher wrote
BatchInit ==
    /\ LoopIdle
    /\ HealthIdle
    /\ ValidIdle
    /\ CycleIdle
    /\ ExtractIdle
    /\ ClaimIdle
    /\ EqisIdle
    /\ FetchIdle
    /\ GroupIdle
    /\ ScoreIdle
    /\ RepIdle
    /\ cfgSnapshots = <<>>
    /\ cfgChangeEvents = {}
    /\ cfgCurrent = ConservativeDefaults
    /\ cfgGeneration = 1
    /\ cfgRet = [op |-> "load_startup_configuration", ret |-> 0]
    /\ bStore \in UNION {[1..n -> FreshRows] : n \in 0..MaxStore}
    /\ bEvents = 0
    /\ bLinks = {}
    /\ bNow = FirstHour
    /\ bLast = [selection |-> <<>>, ret |-> NULL, committed |-> FALSE]
    /\ bRuns = 0
    /\ bLastSnapshotTime = NULL

BatchNext == ProcessArticlesBatch \/ AdvanceClock

SpecBatch == BatchInit /\ [][BatchNext]_vars

\* C9: a batch that runs over the same selection as the committed batch
\* before it, with no new article in between, leaves the number of
\* articles, events and event-article links and every quality_score as
\* they were.
BatchRerunIsNoOp ==
    [][ ( /\ bRuns' = bRuns + 1
          /\ bLast.committed
          /\ bLast'.selection = bLast.selection )
        => ( /\ Len(bStore') = Len(bStore)
             /\ bEvents' = bEvents
             /\ Cardinality(bLinks') = Cardinality(bLinks)
             /\ \A id \in 1..Len(bStore) :
                    bStore'[id].quality_score = bStore[id].quality_score ) ]_vars

\* C20: a batch that got past its score updates and returned its count,
\* whether or not a statement of an event step failed, has the score/NER
\* update of every selected article committed, and every event it left
\* behind is complete: it has its links, and each link belongs to an event
\* of the batch and to an article whose computed_event_id is that event.
EventFailureIsolated ==
    [][ ( /\ bRuns' = bRuns + 1
          /\ bLast'.ret > 0 )
        => ( /\ \A k \in 1..Len(bLast'.selection) :
                    /\ bStore'[bLast'.selection[k]].quality_computed_at = bNow
                    /\ bStore'[bLast'.selection[k]].ner_extracted_at = bNow
             /\ \A e \in (bEvents + 1)..bEvents' :
                    \E l \in bLinks' : l[1] = e
             /\ \A l \in bLinks' \ bLinks :
                    /\ l[1] \in (bEvents + 1)..bEvents'
                    /\ bStore'[l[2]].computed_event_id = l[1] ) ]_vars


\* rows for the runs that look at the snapshots: recent long texts published
\* an hour apart (so that the ORDER BY leaves one order), and one row more
\* than a batch takes, so that a second batch finds work at once
CadenceRows ==
    [outlet : Outlets, pub : 93..97,
     content : {[ents |-> {"biden", "pittsburgh"},
                 title |-> {"president", "bill"}]},
     long : {TRUE}, quality_score : {NULL}, quality_computed_at : {NULL},
     ner_extracted_at : {NULL}, computed_event_id : {NULL}]

CadenceStores ==
    {st \in UNION {[1..n -> CadenceRows] : n \in 0..(BatchSize + 1)} :
        \A i \in 1..Len(st) : st[i].pub = 98 - i}

CadenceInit ==
    /\ LoopIdle
    /\ HealthIdle
    /\ ValidIdle
    /\ CycleIdle
    /\ ExtractIdle
    /\ ClaimIdle
    /\ EqisIdle
    /\ FetchIdle
    /\ GroupIdle
    /\ ScoreIdle
    /\ RepIdle
    /\ cfgSnapshots = <<>>
    /\ cfgChangeEvents = {}
    /\ cfgCurrent = ConservativeDefaults
    /\ cfgGeneration = 1
    /\ cfgRet = [op |-> "load_startup_configuration", ret |-> 0]
    /\ bStore \in CadenceStores
    /\ bEvents = 0
    /\ bLinks = {}
    /\ bNow = FirstHour
    /\ bLast = [selection |-> <<>>, ret |-> NULL, committed |-> FALSE]
    /\ bRuns = 0
    /\ bLastSnapshotTime = NULL

\* the batches of these runs: every store failure, a scorer that answers 80
CadenceBatch ==
    BatchStep(BatchFailures, {sd \in ScoreData : sd.overall_score = 80})

CadenceNext == CadenceBatch \/ AdvanceClock

SpecCadence == CadenceInit /\ [][CadenceNext]_vars

\* the events the batch that just ran made of its selection
LastBatchEvents ==
    GroupArticlesIntoEvents(
        [k \in 1..Len(bLast'.selection) |-> bStore[bLast'.selection[k]]],
        cfgCurrent)

\* C25: a batch that returned its count and created at least one event has
\* the snapshot written (a runtime row is appended unless the store refused
\* the write), and a batch without events appends a snapshot only when at
\* least 5 minutes (300 seconds) have gone by since the snapshot before it.
SnapshotCadence ==
    [][ ( /\ bRuns' = bRuns + 1
          /\ bLast'.ret > 0 )
        => ( /\ Len(LastBatchEvents) > 0 =>
                    /\ bLastSnapshotTime' = bNow
                    /\ cfgRet'.op = "save_performance_snapshot"
                    /\ \/ cfgRet'.ret = NULL
                       \/ /\ Len(cfgSnapshots') = Len(cfgSnapshots) + 1
                          /\ cfgSnapshots'[Len(cfgSnapshots')].config_source
                                 = "runtime"
             /\ ( /\ Len(LastBatchEvents) = 0
                  /\ Len(cfgSnapshots') > Len(cfgSnapshots)
                  /\ bLastSnapshotTime # NULL )
                    => (bNow - bLastSnapshotTime) * 3600 >= 300 ) ]_vars

SnapshotCadenceWitness ==
    /\ bRuns = 2
    /\ bEvents = 1
    /\ Len(cfgSnapshots) = 1
    /\ bLastSnapshotTime = bNow
    /\ \E i \in 1..Len(bStore) :
           /\ bStore[i].quality_computed_at = bNow
           /\ bStore[i].computed_event_id = NULL

\* C26: every snapshot saved by the running instance (the table is empty
\* when it starts, so every row is its own) carries a config_generation
\* strictly greater than that of the snapshot saved just before it.
GenerationBumped ==
    \A i \in 2..Len(cfgSnapshots) :
        cfgSnapshots[i].config_generation
            > cfgSnapshots[i - 1].config_generation

\* C30: after any sequence of batches, with or without store failures while
\* the events are written, every article whose computed_event_id is e has
\* the link (e, article) and the event row e exists; every event row has
\* its member links, and every link belongs to an event row.
EventLinksConsistent ==
    /\ \A i \in 1..Len(bStore) :
           bStore[i].computed_event_id # NULL
               => /\ bStore[i].computed_event_id \in 1..bEvents
                  /\ <<bStore[i].computed_event_id, i>> \in bLinks
    /\ \A e \in 1..bEvents :
           Cardinality({l \in bLinks : l[1] = e}) >= 2
    /\ \A l \in bLinks : l[1] \in 1..bEvents /\ l[2] \in 1..Len(bStore)

\* a batch wrote an event, and a later batch that grouped an event again
\* failed while writing it
EventLinksConsistentWitness ==
    /\ bRuns >= 2
    /\ bEvents >= 1
    /\ bLast.ret > 0
    /\ ~bLast.committed
    /\ \E i \in 1..Len(bStore) : bStore[i].computed_event_id # NULL

-----------------------------------------------------------------------------
(* analytics worker: the EQIS of one event (services/analytics-py/worker.py) *)
(* Times are whole hours.  Sub-scores and the EQIS are in thousandths of a  *)
(* point, so 100 points are OneHundred.  Shares and weights are in          *)
(* thousandths, exp and log values in ten-thousandths, rounded down.        *)

MaxArticles == 15
MaxClaims == 2
MaxEqisRuns == 2
FirstEqisHour == 480
LastEqisHour == 504
EqisClockSteps == {24}
SinceLastHours == {1}
ArticleSpacings == {NULL, 12, 24}
CosineChoices == {1000}

OneHundred == 100000

OutletNames == <<"Reuters", "www.bbc.com">>
OutletSet == {OutletNames[i] : i \in 1..Len(OutletNames)}

\* params.get(..) of load_config(): the defaults written in the calls
RecencyTauDays == 5
CoverageSaturation == 20
CoherenceMinArticles == 2
\* 0.05 and 0.02, in ten-thousandths
HighRiskCap == 500
DefaultCorrectionRate == 200
\* 0.8, in thousandths
DefaultAuthorityWeight == 800

ComponentKeys ==
    {"days", "coverage", "coherence", "best_source", "corroboration",
     "correction_risk"}

\* cfg.get("weights", {}): a weighting of the six components that sums to
\* one, or no weights at all
WeightChoices ==
    { [k \in ComponentKeys |->
          CASE k = "days" -> 200
            [] k = "coverage" -> 200
            [] k = "coherence" -> 150
            [] k = "best_source" -> 150
            [] k = "corroboration" -> 200
            [] OTHER -> 100],
      [k \in ComponentKeys |-> 0] }

\* fetch_outlet_profiles reads outlet_authority: no rows, or a row of 90
\* for Reuters and a row of 100 for the others
ProfileTables ==
    { [o \in OutletSet |-> NULL],
      [o \in OutletSet |-> IF o = "Reuters" THEN 90 ELSE 100] }

\* the rows of fetch_event_article_data, ORDER BY published_at NULLS LAST, id:
\* n articles of m outlets in turn, `spacing` hours apart, the last one
\* `since` hours before `now` (all without published_at when spacing is NULL)
EventArticles(n, m, spacing, since, now) ==
    [k \in 1..n |->
        [id |-> k,
         outlet_name |-> OutletNames[((k - 1) % m) + 1],
         published_at |-> IF spacing = NULL THEN NULL
                          ELSE now - since - (n - k) * spacing,
         text |-> TRUE]]

\* the rows of fetch_event_claims: v verified, c contested and x unverified
\* claims, spread over the event's articles in turn
EventClaims(n, v, c, x) ==
    IF n = 0 THEN <<>>
    ELSE [j \in 1..(v + c + x) |->
             [article_id |-> ((j - 1) % n) + 1,
              verified_state |-> IF j <= v THEN "verified"
                                 ELSE IF j <= v + c THEN "contested"
                                 ELSE "unverified"]]

ClaimCounts ==
    {t \in (0..MaxClaims) \X (0..MaxClaims) \X (0..MaxClaims) :
        t[1] + t[2] + t[3] <= MaxClaims}


\* math.exp(-h / (24 * tau)) for h whole hours and tau = RecencyTauDays, in
\* ten-thousandths: exp(-1/120) rounded down, multiplied h times, rounded
\* down each time
HourlyDecay == 9917

RECURSIVE Decay(_)
Decay(h) == IF h = 0 THEN 10000 ELSE (Decay(h - 1) * HourlyDecay) \div 10000

\* math.log(1 + u) / math.log(1 + 14) for u = 0, 1, 2, .. in
\* ten-thousandths, rounded down
LogRatioTable ==
    << 0, 2559, 4056, 5119, 5943, 6616, 7185, 7678, 8113, 8502,
       8854, 9175, 9471, 9745, 10000, 10238, 10462, 10673, 10872 >>

LogRatio(u) == LogRatioTable[u + 1]

\* str.lower() on the outlet names of OutletNames
Lower(name) == IF name = "Reuters" THEN "reuters" ELSE name

\* outlet_profiles.get(dom, {}): the table is keyed by the stored name
Profile(profiles, dom) ==
    IF dom \in DOMAIN profiles THEN profiles[dom] ELSE NULL

EventPubTimes(arts) ==
    {arts[k].published_at :
        k \in {i \in 1..Len(arts) : arts[i].published_at # NULL}}

RECURSIVE SumOver(_, _)
SumOver(S, f) ==
    IF S = {} THEN 0
    ELSE LET x == CHOOSE y \in S : TRUE
         IN  f[x] + SumOver(S \ {x}, f)

SetMin(S) == CHOOSE x \in S : \A y \in S : x <= y
SetMax(S) == CHOOSE x \in S : \A y \in S : x >= y

ScoreDays(arts, now) ==
    IF Len(arts) = 0 \/ EventPubTimes(arts) = {}
    THEN [score |-> 0, age_days |-> 0, unique_days |-> 0]
    ELSE LET first == SetMin(EventPubTimes(arts))
             last == SetMax(EventPubTimes(arts))
             unique_days == Cardinality({t \div 24 : t \in EventPubTimes(arts)})
             recency == Decay(Max(0, now - last))
             persistence == LogRatio(unique_days)
         IN  [score |-> (60 * recency + 40 * persistence) \div 10,
              age_days |-> now - first,
              unique_days |-> unique_days]

DefaultGroup(domain) == IF domain = "www.bbc.com" THEN "bbc.com" ELSE domain

ProfileGroup(profiles, dom) ==
    IF Profile(profiles, dom) # NULL THEN dom ELSE DefaultGroup(dom)

ScoreCoverage(arts, profiles) ==
    IF Len(arts) = 0 THEN [score |-> 0, coverage |-> 0]
    ELSE LET groups == {ProfileGroup(profiles, Lower(arts[k].outlet_name)) :
                            k \in 1..Len(arts)}
             coverage == Cardinality(groups)
         IN  [score |-> (OneHundred * Min(CoverageSaturation, coverage))
                            \div CoverageSaturation,
              coverage |-> coverage]

\* cosine is what TfidfVectorizer and cosine_similarity answer for the texts
ScoreCoherence(arts, cosine) ==
    LET texts == {k \in 1..Len(arts) : arts[k].text}
    IN  IF Cardinality(texts) < CoherenceMinArticles THEN 0
        ELSE (OneHundred * cosine) \div 1000

ScoreCorroboration(claims) ==
    IF Len(claims) = 0
    THEN [score |-> 0, ratio |-> 0, contradiction_rate |-> 0]
    ELSE LET total == Len(claims)
             verified == Cardinality({j \in 1..total :
                             claims[j].verified_state = "verified"})
             contested == Cardinality({j \in 1..total :
                              claims[j].verified_state = "contested"})
         IN  [score |-> (OneHundred * verified * (total - contested))
                            \div (total * total),
              ratio |-> (1000 * verified) \div total,
              contradiction_rate |-> (1000 * contested) \div total]

\* the profile's correction_rate and the default for a missing profile
CorrectionRate(profiles, dom) ==
    IF Profile(profiles, dom) # NULL THEN DefaultCorrectionRate
    ELSE DefaultCorrectionRate

ScoreCorrectionRisk(arts, profiles) ==
    IF Len(arts) = 0 THEN [score |-> 0, risk |-> 0]
    ELSE LET doms == {Lower(arts[k].outlet_name) : k \in 1..Len(arts)}
             counts == [d \in doms |->
                           Cardinality({k \in 1..Len(arts) :
                               Lower(arts[k].outlet_name) = d})]
             total == SumOver(doms, counts)
             risk == SumOver(doms, [d \in doms |->
                         counts[d] * CorrectionRate(profiles, d)]) \div total
         IN  [score |-> OneHundred
                            - Min(OneHundred, (OneHundred * risk) \div HighRiskCap),
              risk |-> risk]


\* authority_score / 100.0 `or 0.8` of the outlet's row, 0.8 without a row
AuthorityWeight(profiles, dom) ==
    IF Profile(profiles, dom) = NULL \/ Profile(profiles, dom) = 0
    THEN DefaultAuthorityWeight
    ELSE Profile(profiles, dom) * 10

\* four times np.quantile(.., 0.25) of the times, by linear interpolation
\* between the sorted times (the rows come sorted from the query)
FirstQuartileTimes4(arts) ==
    LET pubs == SelectSeq([k \in 1..Len(arts) |-> arts[k].published_at],
                          LAMBDA t : t # NULL)
        i == (Len(pubs) - 1) \div 4
        r == (Len(pubs) - 1) % 4
    IN  IF r = 0 THEN 4 * pubs[i + 1]
        ELSE 4 * pubs[i + 1] + r * (pubs[i + 2] - pubs[i + 1])

ClaimOutlet(arts, c) ==
    LET ids == {k \in 1..Len(arts) : arts[k].id = c.article_id}
    IN  IF ids = {} THEN "" ELSE Lower(arts[CHOOSE k \in ids : TRUE].outlet_name)

\* the keys of `per` in the order they are inserted: the outlets of the
\* claims, then the outlets of the articles of the first quartile
SourceCandidates(arts, claims) ==
    LET cut4 == FirstQuartileTimes4(arts)
        ofClaims == SelectSeq([j \in 1..Len(claims) |->
                                   ClaimOutlet(arts, claims[j])],
                              LAMBDA o : o # "")
        early == SelectSeq(arts, LAMBDA a : /\ a.published_at # NULL
                                            /\ 4 * a.published_at <= cut4)
    IN  ofClaims \o [k \in 1..Len(early) |-> Lower(early[k].outlet_name)]

\* s of one outlet, in thousandths of a point (s is between 0 and 1)
SourceScore(arts, claims, profiles, dom) ==
    LET cut4 == FirstQuartileTimes4(arts)
        ofDom == {j \in 1..Len(claims) : ClaimOutlet(arts, claims[j]) = dom}
        verified == Cardinality({j \in ofDom :
                        claims[j].verified_state = "verified"})
        total == Max(1, Cardinality(ofDom))
        outlet_articles == Cardinality({k \in 1..Len(arts) :
                               Lower(arts[k].outlet_name) = dom})
        primacy == Cardinality({k \in 1..Len(arts) :
                       /\ Lower(arts[k].outlet_name) = dom
                       /\ arts[k].published_at # NULL
                       /\ 4 * arts[k].published_at <= cut4})
    IN  ( 600 * AuthorityWeight(profiles, dom)
          + (200000 * primacy) \div Max(1, outlet_articles)
          + (200000 * verified) \div total ) \div 1000

ScoreBestSource(arts, claims, profiles) ==
    IF Len(arts) = 0 \/ EventPubTimes(arts) = {}
    THEN [dom |-> "", score |-> 0]
    ELSE LET cands == SourceCandidates(arts, claims)
             S(i) == SourceScore(arts, claims, profiles, cands[i])
             best == CHOOSE i \in 1..Len(cands) :
                         \A j \in 1..Len(cands) :
                             S(j) < S(i) \/ (S(j) = S(i) /\ i <= j)
         IN  IF Len(cands) = 0 THEN [dom |-> "", score |-> 0 - 1000]
             ELSE [dom |-> cands[best], score |-> S(best)]

\* sum(weights.get(k, 0.0) * components.get(k, 0.0))
ComputeEqis(components, weights) ==
    SumOver(DOMAIN components,
            [k \in DOMAIN components |->
                (IF k \in DOMAIN weights THEN weights[k] ELSE 0)
                    * components[k]]) \div 1000

\* one iteration of main()'s loop up to compute_eqis: the six numeric
\* components, the EQIS and the facts
EventScores(arts, claims, profiles, cosine, weights, now) ==
    LET days == ScoreDays(arts, now)
        cov == ScoreCoverage(arts, profiles)
        coh == ScoreCoherence(arts, cosine)
        best == ScoreBestSource(arts, claims, profiles)
        cor == ScoreCorroboration(claims)
        risk == ScoreCorrectionRisk(arts, profiles)
        numeric == [days |-> days.score, coverage |-> cov.score,
                    coherence |-> coh, best_source |-> best.score,
                    corroboration |-> cor.score,
                    correction_risk |-> risk.score]
    IN  [numeric |-> numeric,
         eqis |-> ComputeEqis(numeric, weights),
         age_days |-> days.age_days,
         site_count |-> cov.coverage,
         best_source |-> best.dom,
         corroboration_ratio |-> cor.ratio,
         contradiction_rate |-> cor.contradiction_rate,
         correction_risk |-> risk.risk]

\* the VALUES of save_metrics' INSERT
EventMetricsValues(event_id, s, now) ==
    [event_id |-> event_id,
     age_days |-> s.age_days,
     coverage_sites |-> s.site_count,
     keyword_coherence |-> s.numeric.coherence,
     best_source |-> s.best_source,
     corroboration_ratio |-> s.corroboration_ratio,
     contradiction_rate |-> s.contradiction_rate,
     correction_risk |-> s.correction_risk,
     eqis_score |-> s.eqis,
     components |-> s.numeric,
     computed_at |-> now]

\* the same INSERT without its ON CONFLICT clause
SaveMetricsNoConflictClause(table, event_id, s, now) ==
    Append(table, EventMetricsValues(event_id, s, now))

\* save_metrics: INSERT .. ON CONFLICT (event_id) DO UPDATE SET every other
\* column to the new value
SaveMetrics(table, event_id, s, now) ==
    IF \E i \in 1..Len(table) : table[i].event_id = event_id
    THEN [i \in 1..Len(table) |->
             IF table[i].event_id = event_id
             THEN EventMetricsValues(event_id, s, now)
             ELSE table[i]]
    ELSE Append(table, EventMetricsValues(event_id, s, now))

\* the event's row of the table, NoEventMetrics without one
EventMetricsRow(table, event_id) ==
    IF \E i \in 1..Len(table) : table[i].event_id = event_id
    THEN table[CHOOSE i \in 1..Len(table) : table[i].event_id = event_id]
    ELSE NoEventMetrics

\* main(): one run of the worker over the event
ComputeEvent ==
    /\ eRuns < MaxEqisRuns
    /\ eMetrics' = SaveMetrics(eMetrics, 1,
                               EventScores(eArticles, eClaims, eProfiles,
                                           eCosine, eWeights, eNow), eNow)
    /\ eRuns' = eRuns + 1
    /\ UNCHANGED <<eArticles, eClaims, eProfiles, eCosine, eWeights, eNow>>
    /\ EqisFrame

EqisClock ==
    /\ eNow < LastEqisHour
    /\ \E step \in EqisClockSteps : eNow' = eNow + step
    /\ UNCHANGED <<eArticles, eClaims, eProfiles, eCosine, eWeights,
                   eMetrics, eRuns>>
    /\ EqisFrame

EqisInit ==
    /\ LoopIdle
    /\ HealthIdle
    /\ ValidIdle
    /\ CycleIdle
    /\ ExtractIdle
    /\ ClaimIdle
    /\ FetchIdle
    /\ GroupIdle
    /\ ScoreIdle
    /\ RepIdle
    /\ CfgIdle
    /\ BatchIdle
    /\ eNow = FirstEqisHour
    /\ \E n \in 0..MaxArticles, m \in 1..Len(OutletNames),
          spacing \in ArticleSpacings, since \in SinceLastHours,
          t \in ClaimCounts :
          /\ eArticles = EventArticles(n, m, spacing, since, FirstEqisHour)
          /\ eClaims = EventClaims(n, t[1], t[2], t[3])
    /\ eProfiles \in ProfileTables
    /\ eCosine \in CosineChoices
    /\ eWeights \in WeightChoices
    /\ eMetrics = <<>>
    /\ eRuns = 0

EqisNext == ComputeEvent \/ EqisClock

SpecEqis == EqisInit /\ [][EqisNext]_vars

\* C10: every one of the six sub-scores of a saved event lies in [0, 100],
\* its EQIS lies in [0, 100], and its corroboration is 0 when the event has
\* no claims.
EqisBounds ==
    LET row == EventMetricsRow(eMetrics, 1)
    IN  row # NoEventMetrics =>
            /\ \A k \in ComponentKeys :
                   /\ row.components[k] >= 0
                   /\ row.components[k] <= OneHundred
            /\ row.eqis_score >= 0
            /\ row.eqis_score <= OneHundred
            /\ (Len(eClaims) = 0 => row.components.corroboration = 0)

\* the columns of an event_metrics row other than computed_at
ExceptComputedAt(row) == [row EXCEPT !.computed_at = 0]

\* C11: a save for the event leaves exactly one event_metrics row for it,
\* that row holds the values of this save in every column, and when the
\* values are those of the save before it the row is as it was, except for
\* computed_at.
EqisSaveIdempotent ==
    [][ eRuns' = eRuns + 1 =>
          LET values == EventMetricsValues(1,
                            EventScores(eArticles, eClaims, eProfiles,
                                        eCosine, eWeights, eNow), eNow)
              old == EventMetricsRow(eMetrics, 1)
          IN  /\ Cardinality({i \in 1..Len(eMetrics') :
                                 eMetrics'[i].event_id = 1}) = 1
              /\ EventMetricsRow(eMetrics', 1) = values
              /\ ( /\ old # NoEventMetrics
                   /\ ExceptComputedAt(values) = ExceptComputedAt(old) )
                 => ExceptComputedAt(EventMetricsRow(eMetrics', 1))
                        = ExceptComputedAt(old) ]_vars

\* the event was saved twice, the second time later than the first could
\* have been, and has one row
EqisSaveIdempotentWitness ==
    /\ eRuns = 2
    /\ Len(eArticles) > 0
    /\ Len(eMetrics) = 1
    /\ eMetrics[1].computed_at = LastEqisHour


-----------------------------------------------------------------------------
(* claim extractor (services/claim-extractor/extractor.py)                  *)
(* A text is the sequence of its sentences as spaCy splits them; a sentence *)
(* is its stripped length and what the patterns and the classifier answer   *)
(* for it.                                                                   *)

MaxSentences == 2
MinSentenceLength == 30
MaxSentenceLength == 500
MaxClaimsPerArticle == 20
MaxClaimTextLength == 1000

SentenceLengths ==
    {MinSentenceLength - 1, MinSentenceLength, MaxSentenceLength,
     MaxSentenceLength + 1}

\* len: len(sent.text.strip()); indicator: claim_pattern.search finds one;
\* numerical: the numerical pattern of the second pass finds one;
\* irregular: the sentence holds whitespace that re.sub(r'\s+', ' ') changes;
\* type: what classify_claim_type answers for it
Sentences ==
    [len : SentenceLengths, indicator : BOOLEAN, numerical : BOOLEAN,
     irregular : BOOLEAN, type : {"opinion"}]

\* claim_text.lower()[:100] of the first pass, sent_text.lower()[:100] of the
\* second, for the sentence at position i
NormalizedKey(sents, i) ==
    IF sents[i].irregular THEN <<i, "normalized">> ELSE <<i, "raw">>
RawKey(sents, i) == <<i, "raw">>

\* first loop over doc.sents, from position i on
RECURSIVE IndicatorPass(_, _, _)
IndicatorPass(sents, i, acc) ==
    IF i > Len(sents) THEN acc
    ELSE LET sent == sents[i]
             key == NormalizedKey(sents, i)
         IN  IF sent.len < MinSentenceLength \/ sent.len > MaxSentenceLength
             THEN IndicatorPass(sents, i + 1, acc)
             ELSE IF ~sent.indicator \/ key \in acc.processed_claims
             THEN IndicatorPass(sents, i + 1, acc)
             ELSE IndicatorPass(sents, i + 1,
                      [claims |-> Append(acc.claims,
                                      [sentence |-> i, type |-> sent.type,
                                       confidence |-> 8]),
                       processed_claims |-> acc.processed_claims \cup {key}])

\* second loop over doc.sents, from position i on
RECURSIVE NumericalPass(_, _, _)
NumericalPass(sents, i, acc) ==
    IF i > Len(sents) THEN acc
    ELSE LET sent == sents[i]
             key == RawKey(sents, i)
         IN  IF ~sent.numerical \/ key \in acc.processed_claims
             THEN NumericalPass(sents, i + 1, acc)
             ELSE NumericalPass(sents, i + 1,
                      [claims |-> Append(acc.claims,
                                      [sentence |-> i, type |-> "fact",
                                       confidence |-> 9]),
                       processed_claims |-> acc.processed_claims \cup {key}])

\* claims.sort(key=confidence, reverse=True): a stable sort
SortByConfidence(claims) ==
    SelectSeq(claims, LAMBDA c : c.confidence = 9)
        \o SelectSeq(claims, LAMBDA c : c.confidence = 8)

ExtractClaimsFromText(text, title) ==
    IF text = <<>> THEN <<>>
    ELSE LET sents == title \o text
             first == IndicatorPass(sents, 1,
                          [claims |-> <<>>, processed_claims |-> {}])
             second == NumericalPass(sents, 1, first)
             sorted == SortByConfidence(second.claims)
         IN  [k \in 1..Min(MaxClaimsPerArticle, Len(sorted)) |->
                 [text_len |-> sents[sorted[k].sentence].len,
                  type |-> sorted[k].type,
                  confidence |-> sorted[k].confidence]]


\* one call of extract_claims_from_text

TitleChoices ==
    { <<>>,
      <<[len |-> MinSentenceLength - 1, indicator |-> FALSE,
         numerical |-> FALSE, irregular |-> FALSE, type |-> "fact"]>> }

ExtractCall ==
    /\ ~xOut.returned
    /\ xOut' = [returned |-> TRUE,
                claims |-> ExtractClaimsFromText(xText, xTitle)]
    /\ UNCHANGED <<xTitle, xText>>
    /\ ExtractFrame

ExtractInit ==
    /\ LoopIdle
    /\ HealthIdle
    /\ ValidIdle
    /\ CycleIdle
    /\ FetchIdle
    /\ GroupIdle
    /\ ScoreIdle
    /\ RepIdle
    /\ CfgIdle
    /\ BatchIdle
    /\ EqisIdle
    /\ ClaimIdle
    /\ xTitle \in TitleChoices
    /\ xText \in UNION {[1..n -> Sentences] : n \in 0..MaxSentences}
    /\ xOut = NoExtraction

ExtractNext == ExtractCall

SpecExtract == ExtractInit /\ [][ExtractNext]_vars

\* C13: no returned claim comes from a sentence shorter than 30 or longer
\* than 500 characters.
ClaimSentenceLength ==
    \A k \in 1..Len(xOut.claims) :
        /\ xOut.claims[k].text_len >= MinSentenceLength
        /\ xOut.claims[k].text_len <= MaxSentenceLength

\* the claim extractor's batches over the articles and claims tables

MaxClaimArticles == 2
ExtractorBatchSize == 2
Extractors == {"x1", "x2"}

PlainSentence(len) ==
    [len |-> len, indicator |-> FALSE, numerical |-> FALSE,
     irregular |-> FALSE, type |-> "fact"]

IndicatorSentence(len) ==
    [len |-> len, indicator |-> TRUE, numerical |-> FALSE,
     irregular |-> FALSE, type |-> "fact"]

\* the texts of the stored articles: none, one too short to be selected, one
\* without a claim and one with a claim
ArticleTexts ==
    { <<>>,
      <<PlainSentence(MinSentenceLength)>>,
      <<PlainSentence(MaxSentenceLength)>>,
      <<IndicatorSentence(MaxSentenceLength)>> }

ArticleTitle == <<PlainSentence(MinSentenceLength - 1)>>

\* LENGTH(a.text): the sentences and one separator between two of them
RECURSIVE TextLength(_)
TextLength(text) ==
    IF text = <<>> THEN 0
    ELSE IF Len(text) = 1 THEN text[1].len
    ELSE text[1].len + 1 + TextLength(Tail(text))

HasClaimRow(claims, id) == \E i \in 1..Len(claims) : claims[i].article_id = id

\* get_unprocessed_articles: the ids of the selected rows in the order of
\* the result, the latest fetched (highest id) first, LIMIT batch_size
RECURSIVE UnprocessedFrom(_, _, _)
UnprocessedFrom(arts, claims, id) ==
    IF id = 0 THEN <<>>
    ELSE IF TextLength(arts[id].text) > 100 /\ ~HasClaimRow(claims, id)
    THEN <<id>> \o UnprocessedFrom(arts, claims, id - 1)
    ELSE UnprocessedFrom(arts, claims, id - 1)

GetUnprocessedArticles(arts, claims) ==
    LET all == UnprocessedFrom(arts, claims, Len(arts))
    IN  SubSeq(all, 1, Min(ExtractorBatchSize, Len(all)))

\* save_claims: one row for each claim, in one transaction
ClaimRows(id, claims) ==
    [k \in 1..Len(claims) |->
        [article_id |-> id,
         text_len |-> Min(claims[k].text_len, MaxClaimTextLength),
         claim_type |-> claims[k].type]]

\* the row process_article inserts when nothing was extracted
PlaceholderRow(id) == [article_id |-> id, text_len |-> 19, claim_type |-> "none"]

\* run_batch up to the loop: the selection; an empty one ends the batch
RunBatchSelect(x) ==
    /\ cPc[x] = "idle"
    /\ GetUnprocessedArticles(cArticles, cClaims) # <<>>
    /\ cBatch' = [cBatch EXCEPT ![x] = GetUnprocessedArticles(cArticles, cClaims)]
    /\ cPc' = [cPc EXCEPT ![x] = "batch"]
    /\ UNCHANGED <<cArticles, cClaims, cProcessed>>
    /\ ClaimFrame

\* one iteration of run_batch's loop: process_article for the next article of
\* the batch; a failed transaction stores nothing and the error is logged
ProcessArticle(x) ==
    /\ cPc[x] = "batch"
    /\ LET id == Head(cBatch[x])
           claims == ExtractClaimsFromText(cArticles[id].text,
                                           cArticles[id].title)
       IN  \E dbFails \in BOOLEAN :
               /\ cClaims' = IF dbFails THEN cClaims
                             ELSE IF claims # <<>>
                             THEN cClaims \o ClaimRows(id, claims)
                             ELSE Append(cClaims, PlaceholderRow(id))
               /\ cProcessed' = IF dbFails THEN cProcessed
                                ELSE cProcessed \cup {id}
    /\ cBatch' = [cBatch EXCEPT ![x] = Tail(cBatch[x])]
    /\ cPc' = [cPc EXCEPT ![x] = IF Len(cBatch[x]) = 1 THEN "idle" ELSE "batch"]
    /\ UNCHANGED cArticles
    /\ ClaimFrame

ClaimInit ==
    /\ LoopIdle
    /\ HealthIdle
    /\ ValidIdle
    /\ CycleIdle
    /\ FetchIdle
    /\ GroupIdle
    /\ ScoreIdle
    /\ RepIdle
    /\ CfgIdle
    /\ BatchIdle
    /\ EqisIdle
    /\ ExtractIdle
    /\ cArticles \in UNION {[1..n -> [title : {ArticleTitle}, text : ArticleTexts]] :
                               n \in 1..MaxClaimArticles}
    /\ cClaims = <<>>
    /\ cBatch = [x \in Extractors |-> <<>>]
    /\ cPc = [x \in Extractors |-> "idle"]
    /\ cProcessed = {}

ClaimNext == \E x \in Extractors : RunBatchSelect(x) \/ ProcessArticle(x)

SpecClaims == ClaimInit /\ [][ClaimNext]_vars

RealClaims(id) ==
    Cardinality({i \in 1..Len(cClaims) :
        cClaims[i].article_id = id /\ cClaims[i].claim_type # "none"})

Placeholders(id) ==
    Cardinality({i \in 1..Len(cClaims) :
        cClaims[i].article_id = id /\ cClaims[i].claim_type = "none"})

\* C12: every processed article has at least one real claim and no
\* placeholder, or no real claim and exactly one placeholder, and no batch
\* selects a processed article.
ProcessedMarking ==
    /\ [](\A id \in cProcessed :
              \/ RealClaims(id) >= 1 /\ Placeholders(id) = 0
              \/ RealClaims(id) = 0 /\ Placeholders(id) = 1)
    /\ [][\A x \in Extractors :
              cPc[x] = "idle" /\ cPc'[x] = "batch" =>
                  \A k \in 1..Len(cBatch'[x]) : cBatch'[x][k] \notin cProcessed]_vars

-----------------------------------------------------------------------------
(* feed validator: services/quality-service/rss_agency_validator.py         *)

MaxFeeds == 10

\* news_agency_reputation_metrics as the analyzer leaves it: agency 1 has no
\* final_reputation_score yet, agency 2 scored 0, agency 3 scored 85
AgencyTable == <<NULL, 0, 85>>

\* rss_feeds.news_agency_id: no mapping, one of the agencies, or an id (4)
\* without a row in news_agency_reputation_metrics
AgencyIds == {NULL, 1, 2, 3, 4}

FeedKinds ==
    <<[active |-> FALSE, news_agency_id |-> 3],
      [active |-> TRUE, news_agency_id |-> NULL],
      [active |-> TRUE, news_agency_id |-> 1],
      [active |-> TRUE, news_agency_id |-> 2],
      [active |-> TRUE, news_agency_id |-> 3],
      [active |-> TRUE, news_agency_id |-> 4]>>

RECURSIVE SumCounts(_, _)
SumCounts(counts, k) ==
    IF k = 0 THEN 0 ELSE counts[k] + SumCounts(counts, k - 1)

\* the rss_feeds table with counts[k] rows of kind k, kind after kind
FeedTable(counts) ==
    [i \in 1..SumCounts(counts, Len(FeedKinds)) |->
        FeedKinds[CHOOSE k \in 1..Len(FeedKinds) :
            /\ SumCounts(counts, k - 1) < i
            /\ i <= SumCounts(counts, k)]]

\* SELECT ... FROM rss_feeds rf LEFT JOIN news_agency_reputation_metrics narm
\* ON rf.news_agency_id = narm.id WHERE rf.active = true
JoinedRow(feeds, agencies, i) ==
    [id |-> i,
     news_agency_id |-> feeds[i].news_agency_id,
     final_reputation_score |->
        IF feeds[i].news_agency_id \in DOMAIN agencies
        THEN agencies[feeds[i].news_agency_id]
        ELSE NULL]

RECURSIVE ActiveFrom(_, _, _)
ActiveFrom(feeds, agencies, i) ==
    IF i > Len(feeds) THEN <<>>
    ELSE IF feeds[i].active
         THEN <<JoinedRow(feeds, agencies, i)>> \o
              ActiveFrom(feeds, agencies, i + 1)
         ELSE ActiveFrom(feeds, agencies, i + 1)

ValidateSingleFeed(feed) ==
    LET has_mapping == feed.news_agency_id # NULL
        \* float(score) if score else None: None and 0 both give None
        reputation_score ==
            IF feed.final_reputation_score = NULL
               \/ feed.final_reputation_score = 0
            THEN NULL
            ELSE feed.final_reputation_score
        status ==
            IF ~has_mapping THEN "NO_AGENCY_MAPPING"
            ELSE IF reputation_score = NULL \/ reputation_score = 0
                 THEN "AGENCY_MAPPED_NO_SCORE"
                 ELSE "VALID"
    IN  [rss_feed_id |-> feed.id,
         has_agency_mapping |-> has_mapping,
         reputation_score |-> reputation_score,
         validation_status |-> status]

\* the query raising is caught and logged: what was collected so far, the
\* empty list, is returned
ValidateAllRssFeeds(feeds, agencies, queryFails) ==
    IF queryFails THEN <<>>
    ELSE LET rss_feeds == ActiveFrom(feeds, agencies, 1)
         IN  [k \in 1..Len(rss_feeds) |-> ValidateSingleFeed(rss_feeds[k])]

CountWhere(validations, Test(_)) ==
    Cardinality({k \in 1..Len(validations) : Test(validations[k])})

\* round((count / total) * 100, 2) in hundredths of a percent; to the nearest,
\* no count / total with total < 32 lies half way between two hundredths
Percentage(count, total) ==
    IF total > 0 THEN (2 * 10000 * count + total) \div (2 * total) ELSE 0

GetValidationSummaryDict(validations) ==
    LET HasMapping(v) == v.has_agency_mapping
        HasScore(v) == v.reputation_score # NULL /\ v.reputation_score > 0
        total_feeds == Len(validations)
        mapped_feeds == CountWhere(validations, HasMapping)
        scored_feeds == CountWhere(validations, HasScore)
    IN  [returned |-> TRUE,
         total_rss_feeds |-> total_feeds,
         mapped_to_agencies |-> mapped_feeds,
         with_reputation_scores |-> scored_feeds,
         unmapped_feeds |-> total_feeds - mapped_feeds,
         mapped_but_unscored |-> mapped_feeds - scored_feeds,
         mapping_percentage |-> Percentage(mapped_feeds, total_feeds),
         scoring_percentage |-> Percentage(scored_feeds, total_feeds)]

ValidateAllCall ==
    /\ vCall = "none"
    /\ \E queryFails \in BOOLEAN :
           vValidations' = ValidateAllRssFeeds(vFeeds, vAgencies, queryFails)
    /\ vCall' = "validate_all_rss_feeds"
    /\ UNCHANGED <<vFeeds, vAgencies, vSummary>>
    /\ ValidFrame

GetValidationSummary ==
    /\ vCall # "get_validation_summary"
    /\ \E queryFails \in BOOLEAN :
           LET validations ==
                   ValidateAllRssFeeds(vFeeds, vAgencies, queryFails)
           IN  /\ vValidations' = validations
               /\ vSummary' = GetValidationSummaryDict(validations)
    /\ vCall' = "get_validation_summary"
    /\ UNCHANGED <<vFeeds, vAgencies>>
    /\ ValidFrame

ValidInit ==
    /\ LoopIdle
    /\ HealthIdle
    /\ FetchIdle
    /\ GroupIdle
    /\ ScoreIdle
    /\ RepIdle
    /\ CfgIdle
    /\ BatchIdle
    /\ EqisIdle
    /\ ExtractIdle
    /\ ClaimIdle
    /\ CycleIdle
    /\ \E counts \in [1..Len(FeedKinds) -> 0..MaxFeeds] :
           /\ SumCounts(counts, Len(FeedKinds)) <= MaxFeeds
           /\ vFeeds = FeedTable(counts)
    /\ vAgencies = AgencyTable
    /\ vValidations = <<>>
    /\ vSummary = NoSummary
    /\ vCall = "none"

ValidNext == ValidateAllCall \/ GetValidationSummary

SpecValidator == ValidInit /\ [][ValidNext]_vars

ActiveFeeds == {i \in 1..Len(vFeeds) : vFeeds[i].active}

ValidationStatuses == {"VALID", "AGENCY_MAPPED_NO_SCORE", "NO_AGENCY_MAPPING"}

StatusCount(status) ==
    Cardinality({k \in 1..Len(vValidations) :
        vValidations[k].validation_status = status})

\* C17: once get_validation_summary has returned, every active feed has
\* exactly one validation, with one of the three statuses, and the summary
\* has total_rss_feeds = number of active feeds, mapped_to_agencies = number
\* of feeds not NO_AGENCY_MAPPING, with_reputation_scores = number of VALID
\* feeds and each percentage = count / total x 100 rounded to 2 decimals.
FeedValidatorReport ==
    vCall = "get_validation_summary" =>
        /\ \A i \in ActiveFeeds :
               /\ Cardinality({k \in 1..Len(vValidations) :
                      vValidations[k].rss_feed_id = i}) = 1
               /\ \A k \in 1..Len(vValidations) :
                      vValidations[k].rss_feed_id = i =>
                          vValidations[k].validation_status
                              \in ValidationStatuses
        /\ vSummary.total_rss_feeds = Cardinality(ActiveFeeds)
        /\ vSummary.mapped_to_agencies =
               Cardinality(ActiveFeeds) - StatusCount("NO_AGENCY_MAPPING")
        /\ vSummary.with_reputation_scores = StatusCount("VALID")
        /\ vSummary.mapping_percentage =
               Percentage(vSummary.mapped_to_agencies,
                          Cardinality(ActiveFeeds))
        /\ vSummary.scoring_percentage =
               Percentage(vSummary.with_reputation_scores,
                          Cardinality(ActiveFeeds))

-----------------------------------------------------------------------------
(* rss-fetcher: one fetch cycle (RSSFetcher.run_once, fetcher.py)           *)
(* The clock and every timestamp are in minutes; the two-second sleep after *)
(* a feed does not move the clock.                                          *)

MaxCycleFeeds == 2
MaxCycles == 3
FirstMinute == 60
LastMinute == 95
\* minutes that go by between two cycles (FETCH_INTERVAL is 300 seconds)
CycleClockSteps == {5, 30}

\* line 47: feed['fetch_interval_minutes'] or 30
DefaultFetchInterval == 30

\* rss_feeds rows as they are before the first cycle
FreshFeeds ==
    [active : BOOLEAN, last_fetched : {NULL},
     fetch_interval_minutes : {NULL, 10}]

\* lines 42-49
ShouldFetchFeed(feed, now) ==
    IF feed.last_fetched = NULL THEN TRUE
    ELSE LET interval ==
                 IF feed.fetch_interval_minutes = NULL
                    \/ feed.fetch_interval_minutes = 0
                 THEN DefaultFetchInterval
                 ELSE feed.fetch_interval_minutes
         IN  now >= feed.last_fetched + interval

\* how process_feed can end for a due feed:
\*   ok     entries were parsed and saved and update_feed_timestamp ran
\*   empty  parse_feed returned no entries: the return at line 208
\*   error  save_article, the linking or update_feed_timestamp raised; the
\*          except of run_once logs it
FeedOutcomes == {"ok", "empty", "error"}

\* lines 201-225: the rss_feeds row after process_feed ended with outcome
ProcessFeed(feed, outcome, now) ==
    IF outcome = "ok" THEN [feed EXCEPT !.last_fetched = now] ELSE feed

\* lines 227-238: run_once
RunOnce ==
    \E outcome \in [1..Len(fFeeds) -> FeedOutcomes] :
        LET due == [i \in 1..Len(fFeeds) |->
                       fFeeds[i].active /\ ShouldFetchFeed(fFeeds[i], fNow)]
        IN  /\ fCycles < MaxCycles
            /\ \A i \in 1..Len(fFeeds) : ~due[i] => outcome[i] = "ok"
            /\ fFeeds' = [i \in 1..Len(fFeeds) |->
                             IF due[i]
                             THEN ProcessFeed(fFeeds[i], outcome[i], fNow)
                             ELSE fFeeds[i]]
            /\ fCycle' = [due |-> due,
                          outcome |-> [i \in 1..Len(fFeeds) |->
                              IF due[i] THEN outcome[i] ELSE "skipped"]]
            /\ fCycles' = fCycles + 1
            /\ UNCHANGED fNow
            /\ CycleFrame

\* lines 240-252: run_continuous waits for the next scheduled cycle
CycleClock ==
    \E d \in CycleClockSteps :
        /\ fNow + d <= LastMinute
        /\ fNow' = fNow + d
        /\ UNCHANGED <<fFeeds, fCycle, fCycles>>
        /\ CycleFrame

CycleInit ==
    /\ LoopIdle
    /\ HealthIdle
    /\ FetchIdle
    /\ GroupIdle
    /\ ScoreIdle
    /\ RepIdle
    /\ CfgIdle
    /\ BatchIdle
    /\ EqisIdle
    /\ ExtractIdle
    /\ ClaimIdle
    /\ ValidIdle
    /\ fFeeds \in UNION {[1..n -> FreshFeeds] : n \in 1..MaxCycleFeeds}
    /\ fNow = FirstMinute
    /\ fCycle = NoCycle
    /\ fCycles = 0

CycleNext == RunOnce \/ CycleClock

SpecCycle == CycleInit /\ [][CycleNext]_vars

\* C19: after a cycle every feed that was due, however its processing
\* ended (entries saved, no entries, an error caught by run_once), was
\* processed in that cycle and has last_fetched = now, so that it is not
\* due if the next cycle starts at once.
FailingFeedAdvanced ==
    [][fCycles' = fCycles + 1 =>
           \A i \in 1..Len(fFeeds) :
               fCycle'.due[i] =>
                   /\ fCycle'.outcome[i] \in FeedOutcomes
                   /\ fFeeds'[i].last_fetched = fNow
                   /\ ~ShouldFetchFeed(fFeeds'[i], fNow')]_vars

-----------------------------------------------------------------------------
(* quality worker main loop: QualityService.run and _signal_handler         *)
(* (main.py).  A batch is one step here; what it stores is modelled by      *)
(* ProcessArticlesBatch above.                                              *)

MaxLoopBatches == 3

\* line 41: SLEEP_INTERVAL, in seconds
SleepInterval == 60

\* what process_articles_batch can answer: 0 (nothing to do, or its own
\* except), or a count
ProcessedCounts == {0, 1}

\* lines 769-774: the handlers are installed at the top of run
RunStart ==
    /\ wPc = "init"
    /\ wPc' = "test"
    /\ UNCHANGED <<wRunning, wSignalAt, wBatches, wSleep>>
    /\ LoopFrame

NextAfterTestAlwaysEnter(running) == "enter"

\* line 775: while self.running
NextAfterTest(running) == IF running THEN "enter" ELSE "stopped"

LoopTest ==
    /\ wPc = "test"
    /\ wPc' = NextAfterTest(wRunning)
    /\ UNCHANGED <<wRunning, wSignalAt, wBatches, wSleep>>
    /\ LoopFrame

\* lines 776-777: the condition held and process_articles_batch is called
BatchStart ==
    /\ wPc = "enter"
    /\ wBatches < MaxLoopBatches
    /\ wPc' = "batch"
    /\ wBatches' = wBatches + 1
    /\ UNCHANGED <<wRunning, wSignalAt, wSleep>>
    /\ LoopFrame

\* lines 777-793: the batch returns its count, or something raised in the
\* try block; the sleep time is chosen and the sleep begins
SleepTime(processed, raised) ==
    IF raised THEN SleepInterval
    ELSE IF processed = 0 THEN SleepInterval * 2 ELSE SleepInterval

BatchEnd ==
    /\ wPc = "batch"
    /\ \E processed \in ProcessedCounts, raised \in BOOLEAN :
           wSleep' = SleepTime(processed, raised)
    /\ wPc' = "sleep"
    /\ UNCHANGED <<wRunning, wSignalAt, wBatches>>
    /\ LoopFrame

\* time.sleep returns (a handled signal does not cut it short)
SleepEnd ==
    /\ wPc = "sleep"
    /\ wPc' = "test"
    /\ UNCHANGED <<wRunning, wSignalAt, wBatches, wSleep>>
    /\ LoopFrame

\* lines 797-800: SIGTERM or SIGINT is delivered between two bytecodes of
\* the loop and _signal_handler runs
SignalHandler ==
    /\ wPc \in {"test", "enter", "batch", "sleep"}
    /\ wRunning' = FALSE
    /\ wSignalAt' = IF wSignalAt = "none" THEN wPc ELSE wSignalAt
    /\ UNCHANGED <<wPc, wBatches, wSleep>>
    /\ LoopFrame

\* lines 36-59: the constructor leaves self.running = True
LoopInit ==
    /\ FetchIdle
    /\ GroupIdle
    /\ ScoreIdle
    /\ RepIdle
    /\ CfgIdle
    /\ BatchIdle
    /\ EqisIdle
    /\ ExtractIdle
    /\ ClaimIdle
    /\ ValidIdle
    /\ CycleIdle
    /\ HealthIdle
    /\ wRunning = TRUE
    /\ wPc = "init"
    /\ wSignalAt = "none"
    /\ wBatches = 0
    /\ wSleep = 0

LoopStep == RunStart \/ LoopTest \/ BatchStart \/ BatchEnd \/ SleepEnd

LoopNext == LoopStep \/ SignalHandler

SpecLoop == LoopInit /\ [][LoopNext]_vars

\* the interpreter keeps executing the worker's thread
SpecLoopFair == SpecLoop /\ WF_vars(LoopStep)

-----------------------------------------------------------------------------
(* quality-service startup health check (startup_health_check.py)           *)

\* line 22: max_retries
MaxRetries == 5

\* how one pass of the try block (lines 24-53) can end: everything worked,
\* psycopg2.connect raised, or one of the statements raised
AttemptOutcomes == {"ok", "connect_failed", "query_failed"}

\* how perform_ner_model_check can go: the extractor works; improved_ner
\* cannot be imported (ImportError, line 84); spaCy or its model is missing
\* and the extractor falls back to a blank model or to regular expressions
\* (improved_ner.py 46-63); anything else raised (line 88)
NerOutcomes == {"ok", "import_error", "model_missing", "error"}

RECURSIVE Pow2(_)
Pow2(n) == IF n = 0 THEN 1 ELSE 2 * Pow2(n - 1)

BackoffWaitConstant(attempt) == 1

\* line 60: wait_time = 2 ** attempt
BackoffWait(attempt) == Pow2(attempt)

\* lines 23-62: one pass of the retry loop of perform_database_health_check
DbAttempt ==
    /\ hPc = "db"
    /\ \E outcome \in AttemptOutcomes :
           /\ hLog' = Append(hLog, outcome)
           /\ IF outcome = "ok"
              THEN /\ hChecks' = [hChecks EXCEPT !.db = 1]
                   /\ hPc' = "ner"
                   /\ UNCHANGED <<hAttempt, hWaits>>
              ELSE IF hAttempt = MaxRetries - 1
              THEN /\ hChecks' = [hChecks EXCEPT !.db = 0]
                   /\ hPc' = "ner"
                   /\ UNCHANGED <<hAttempt, hWaits>>
              ELSE /\ hWaits' = Append(hWaits, BackoffWait(hAttempt))
                   /\ hAttempt' = hAttempt + 1
                   /\ UNCHANGED <<hChecks, hPc>>
    /\ UNCHANGED hExit
    /\ HealthFrame

\* lines 66-90: perform_ner_model_check
NerModelCheck(outcome) == IF outcome = "error" THEN 0 ELSE 1

NerCheck ==
    /\ hPc = "ner"
    /\ \E outcome \in NerOutcomes :
           hChecks' = [hChecks EXCEPT !.ner = NerModelCheck(outcome),
                                      !.ner_outcome = outcome]
    /\ hPc' = "decide"
    /\ UNCHANGED <<hAttempt, hLog, hWaits, hExit>>
    /\ HealthFrame

\* lines 108-113: sys.exit(0) when both checks passed, sys.exit(1) otherwise
ExitCode(db_check, ner_check) ==
    IF db_check = 1 /\ ner_check = 1 THEN 0 ELSE 1

HealthExit ==
    /\ hPc = "decide"
    /\ hExit' = ExitCode(hChecks.db, hChecks.ner)
    /\ hPc' = "exited"
    /\ UNCHANGED <<hAttempt, hLog, hWaits, hChecks>>
    /\ HealthFrame

\* lines 92-102: main starts with the database check
HealthInit ==
    /\ FetchIdle
    /\ GroupIdle
    /\ ScoreIdle
    /\ RepIdle
    /\ CfgIdle
    /\ BatchIdle
    /\ EqisIdle
    /\ ExtractIdle
    /\ ClaimIdle
    /\ ValidIdle
    /\ CycleIdle
    /\ LoopIdle
    /\ hPc = "db"
    /\ hAttempt = 0
    /\ hLog = <<>>
    /\ hWaits = <<>>
    /\ hChecks = NoChecks
    /\ hExit = NULL

HealthNext == DbAttempt \/ NerCheck \/ HealthExit

SpecHealth == HealthInit /\ [][HealthNext]_vars

\* the script keeps running until it exits
SpecHealthFair == SpecHealth /\ WF_vars(HealthNext)

FailedAttempts == {k \in 1..Len(hLog) : hLog[k] # "ok"}

\* what every reading of C24 shares: at most 5 attempts, the script
\* exits, with a non-zero code when every attempt failed, and with code 0
\* when the database check passed and the NER model is merely unavailable
HealthCheckOutcome ==
    /\ [](Len(hLog) <= 5)
    /\ <>(hPc = "exited")
    /\ []( (hPc = "exited" /\ Cardinality(FailedAttempts) = 5)
              => (hExit # NULL /\ hExit # 0) )
    /\ []( ( /\ hPc = "exited"
             /\ hChecks.db = 1
             /\ hChecks.ner_outcome \in {"import_error", "model_missing"} )
              => hExit = 0 )

\* C24 (as stated): at most 5 attempts, a wait of 1, 2, 4, 8, 16 seconds
\* after the first, second, ... fifth failure, termination, a non-zero exit
\* when all attempts fail, and no non-zero exit for an unavailable NER model
\* alone.
HealthCheckBackoffSixteen ==
    /\ HealthCheckOutcome
    /\ []( hPc # "db" =>
              /\ Len(hWaits) = Cardinality(FailedAttempts)
              /\ \A k \in 1..Len(hWaits) : hWaits[k] = Pow2(k - 1) )

\* C24 (amended): the same, with a wait of 1, 2, 4, 8 seconds after the
\* first four failures and no wait after the fifth.
HealthCheckBackoff ==
    /\ HealthCheckOutcome
    /\ []( /\ Len(hWaits) <= 4
           /\ \A k \in 1..Len(hWaits) : hWaits[k] = Pow2(k - 1)
           /\ hPc # "db" => Len(hWaits) = Len(hLog) - 1 )

HealthCheckBackoffWitness ==
    /\ hPc = "exited"
    /\ Cardinality(FailedAttempts) = 5
    /\ hWaits = <<1, 2, 4, 8>>
    /\ hExit = 1

=============================================================================
